---- MODULE Spec2Model ----
(***************************************************************************)
(* A model of the ray tracer's bounding boxes, scene list, BVH, camera     *)
(* builder, render loop and integrator.                                    *)
(*                                                                         *)
(* Numbers.  Lengths are fixed-point integers in units of DELTA/2 (the     *)
(* half padding of BoundingBox3::new), so DELTA is 2.  An f64 is one of:   *)
(* a finite integer, PInf, NInf or NaN; the operators F* below compute as  *)
(* IEEE-754 does on those (inf - inf = NaN, 0 * inf = NaN, a comparison    *)
(* with NaN is false, f64::max and f64::min skip a NaN operand).           *)
(***************************************************************************)
EXTENDS Integers, Sequences, FiniteSets, TLC

(* f64::INFINITY, f64::NEG_INFINITY and NaN, outside the finite range used *)
PInf == 1000000
NInf == -1000000
NaN == 2000000

\* BoundingBox3::new: "no interval may be narrower than DELTA"
DELTA == 2

\* largest coordinate of the corner points handed to bounded_by
MaxCoord == 2

IsFinite(a) == a # NaN /\ a # PInf /\ a # NInf

FLt(a, b) == a # NaN /\ b # NaN /\ a < b
FLe(a, b) == a # NaN /\ b # NaN /\ a <= b

FNeg(a) == IF a = NaN THEN NaN ELSE -a

FAdd(a, b) ==
  IF a = NaN \/ b = NaN THEN NaN
  ELSE IF a = PInf THEN (IF b = NInf THEN NaN ELSE PInf)
  ELSE IF a = NInf THEN (IF b = PInf THEN NaN ELSE NInf)
  ELSE IF b = PInf \/ b = NInf THEN b
  ELSE a + b

FSub(a, b) == FAdd(a, FNeg(b))

FSign(a) == IF a > 0 THEN 1 ELSE IF a < 0 THEN -1 ELSE 0

FMul(a, b) ==
  IF a = NaN \/ b = NaN THEN NaN
  ELSE IF IsFinite(a) /\ IsFinite(b) THEN a * b
  ELSE IF FSign(a) * FSign(b) = 0 THEN NaN
  ELSE IF FSign(a) * FSign(b) > 0 THEN PInf ELSE NInf

\* f64::max / f64::min: when one operand is NaN the other is returned
FMax(a, b) == IF a = NaN THEN b ELSE IF b = NaN THEN a ELSE IF a > b THEN a ELSE b
FMin(a, b) == IF a = NaN THEN b ELSE IF b = NaN THEN a ELSE IF a < b THEN a ELSE b

\* 1.0 / d for a direction component d in {-1, 0, 1} (0 is +0.0)
FRecip(d) == IF d = 0 THEN PInf ELSE d

(***************************************************************************)
(* Interval (math/interval.rs)                                             *)
(***************************************************************************)
Interval_new(start, end) == [start |-> start, end |-> end]

Interval_positive(a, b) ==
  IF FLe(a, b) THEN Interval_new(a, b) ELSE Interval_new(b, a)

Interval_empty == Interval_new(PInf, NInf)

Interval_universe == Interval_new(NInf, PInf)

size(int) == FSub(int.end, int.start)

\* Option<Interval>: <<>> is None, <<i>> is Some(i)
overlap(self, rhs) ==
  LET res == Interval_new(FMax(self.start, rhs.start), FMin(self.end, rhs.end))
  IN  IF FLe(size(res), 0) THEN <<>> ELSE <<res>>

surrounding(a, b) ==
  Interval_positive(FMin(a.start, b.start), FMax(a.end, b.end))

\* RangeInclusive::contains
contains(int, item) == FLe(int.start, item) /\ FLe(item, int.end)

surrounds(int, item) == FLt(int.start, item) /\ FLt(item, int.end)

\* delta / 2.0 on each side; delta is always DELTA, an even number of units
expand(int, delta) ==
  Interval_new(FSub(int.start, delta \div 2), FAdd(int.end, delta \div 2))

(***************************************************************************)
(* BoundingBox3 (boundingbox.rs)                                           *)
(***************************************************************************)
Axes == <<"x", "y", "z">>

\* the closure `expand` of BoundingBox3::new
expand_if_narrow(int) == IF FLt(size(int), DELTA) THEN expand(int, DELTA) ELSE int

\* a faulty variant of BoundingBox3::new: the padding step left out
BoundingBox3_new_unpadded(x, y, z) == [x |-> x, y |-> y, z |-> z]

BoundingBox3_new(x, y, z) ==
  [x |-> expand_if_narrow(x), y |-> expand_if_narrow(y), z |-> expand_if_narrow(z)]

BoundingBox3_empty == [x |-> Interval_empty, y |-> Interval_empty, z |-> Interval_empty]

BoundingBox3_universe ==
  [x |-> Interval_universe, y |-> Interval_universe, z |-> Interval_universe]

\* points are triples <<x, y, z>>
bounded_by(a, b) ==
  BoundingBox3_new(Interval_positive(a[1], b[1]),
                   Interval_positive(a[2], b[2]),
                   Interval_positive(a[3], b[3]))

extending(a, b) ==
  BoundingBox3_new(surrounding(a.x, b.x), surrounding(a.y, b.y), surrounding(a.z, b.z))

\* Option<&BoundingBox3>: <<>> is None, <<b>> is Some(b)
extending_opt(a, b) ==
  IF a = <<>> /\ b = <<>> THEN BoundingBox3_empty
  ELSE IF a = <<>> THEN BoundingBox3_new(b[1].x, b[1].y, b[1].z)
  ELSE IF b = <<>> THEN BoundingBox3_new(a[1].x, a[1].y, a[1].z)
  ELSE extending(a[1], b[1])

\* a faulty variant of the fold of longest_axis: a tie goes to the later axis
longest_axis_step_later(max, this) == IF FLe(max[2], this[2]) THEN this ELSE max

\* the fold of longest_axis over [(X, x.size), (Y, y.size), (Z, z.size)] from (X, 0.0)
longest_axis_step(max, this) == IF FLt(max[2], this[2]) THEN this ELSE max

longest_axis(self) ==
  LET m0 == <<"x", 0>>
      m1 == longest_axis_step(m0, <<"x", size(self.x)>>)
      m2 == longest_axis_step(m1, <<"y", size(self.y)>>)
      m3 == longest_axis_step(m2, <<"z", size(self.z)>>)
  IN  m3[1]

(***************************************************************************)
(* Vec3 / Point3 (math/vec.rs, math/point.rs) on integer triples           *)
(***************************************************************************)
dot(a, b) == a[1] * b[1] + a[2] * b[2] + a[3] * b[3]

cross(a, b) ==
  <<a[2] * b[3] - a[3] * b[2], a[3] * b[1] - a[1] * b[3], a[1] * b[2] - a[2] * b[1]>>

VAdd(a, b) == <<a[1] + b[1], a[2] + b[2], a[3] + b[3]>>
VSub(a, b) == <<a[1] - b[1], a[2] - b[2], a[3] - b[3]>>
VNeg(a) == <<-a[1], -a[2], -a[3]>>
VScale(a, k) == <<a[1] * k, a[2] * k, a[3] * k>>

\* Vec3::as_unit for the vectors used here: one non-zero component, so the
\* unit vector is its sign on that axis
as_unit(v) == <<FSign(v[1]), FSign(v[2]), FSign(v[3])>>

\* Vec3::len for a vector with one non-zero component
len(v) == (IF v[1] < 0 THEN -v[1] ELSE v[1]) + (IF v[2] < 0 THEN -v[2] ELSE v[2])
            + (IF v[3] < 0 THEN -v[3] ELSE v[3])

(***************************************************************************)
(* Ray4 (math/ray.rs)                                                      *)
(***************************************************************************)
Ray4_new(origin, direction, time) ==
  [origin |-> origin, direction |-> direction, time |-> time]

\* origin + direction * dist
at(ray, dist) == VAdd(ray.origin, VScale(ray.direction, dist))

(***************************************************************************)
(* BoundingBox3::hit: the slab test, axis by axis                          *)
(***************************************************************************)
RECURSIVE BoundingBox3_hit_from(_, _, _, _)
BoundingBox3_hit_from(self, ray, ray_t, i) ==
  IF i > 3 THEN TRUE
  ELSE LET ax    == self[Axes[i]]
           adinv == FRecip(ray.direction[i])
           t0    == FMul(FSub(ax.start, ray.origin[i]), adinv)
           t1    == FMul(FSub(ax.end, ray.origin[i]), adinv)
           t_int == Interval_positive(t0, t1)
           new_int == overlap(t_int, ray_t)
       IN  IF new_int = <<>> THEN FALSE
           ELSE BoundingBox3_hit_from(self, ray, new_int[1], i + 1)

BoundingBox3_hit(self, ray, ray_t) == BoundingBox3_hit_from(self, ray, ray_t, 1)

(***************************************************************************)
(* HitRecord and the primitives (hittable.rs).  Option<T>: <<>> is None,   *)
(* <<v>> is Some(v).  Planar coordinates are fractions [num, den], den > 0 *)
(***************************************************************************)
\* a faulty variant of from_incoming_ray: a tangent ray counts as front-face
from_incoming_ray_tangent_front(ray, point, normal, t, u, v, material) ==
  LET front_face == dot(ray.direction, normal) <= 0
  IN  [point |-> point,
       normal |-> IF front_face THEN normal ELSE VNeg(normal),
       t |-> t, u |-> u, v |-> v,
       front_face |-> front_face,
       material |-> material]

from_incoming_ray(ray, point, normal, t, u, v, material) ==
  LET front_face == dot(ray.direction, normal) < 0
  IN  [point |-> point,
       normal |-> IF front_face THEN normal ELSE VNeg(normal),
       t |-> t, u |-> u, v |-> v,
       front_face |-> front_face,
       material |-> material]

Parallelogram_new(corner, u, v, material) ==
  LET diag_1 == bounded_by(corner, VAdd(VAdd(corner, u), v))
      diag_2 == bounded_by(VAdd(corner, u), VAdd(corner, v))
      n      == cross(u, v)
      normal == as_unit(n)
  IN  [kind |-> "Parallelogram",
       corner |-> corner, u |-> u, v |-> v,
       d |-> dot(normal, corner),
       w |-> [num |-> n, den |-> dot(n, n)],      \* n / dot(n, n)
       area |-> len(n),
       normal |-> normal,
       material |-> material,
       bounding_box |-> extending(diag_1, diag_2)]

\* Planar coordinates are fractions [num, den] over the common denominator
\* den = dot(n, n) > 0; num is an f64 (finite, infinite or NaN).

\* 0.0..=1.0 contains a and b
Parallelogram_is_interior(a, b) ==
  IF ~(FLe(0, a.num) /\ FLe(a.num, a.den)) \/ ~(FLe(0, b.num) /\ FLe(b.num, b.den))
  THEN <<>> ELSE <<<<a, b>>>>

\* a < 0.0 || b < 0.0 || (a + b) > 1.0
Triangle_is_interior(a, b) ==
  IF FLt(a.num, 0) \/ FLt(b.num, 0) \/ FLt(a.den, FAdd(a.num, b.num))
  THEN <<>> ELSE <<<<a, b>>>>

\* a < 0.0 || b < 0.0 || sqrt((0.5 - a)^2 + (0.5 - b)^2) > 0.5, scaled by
\* 2 * den and squared
Disc_is_interior(a, b) ==
  LET a_c_dist == FSub(a.den, FMul(2, a.num))
      b_c_dist == FSub(b.den, FMul(2, b.num))
  IN  IF \/ FLt(a.num, 0)
         \/ FLt(b.num, 0)
         \/ FLt(a.den * a.den, FAdd(FMul(a_c_dist, a_c_dist), FMul(b_c_dist, b_c_dist)))
      THEN <<>> ELSE <<<<a, b>>>>

\* demon is an integer here, so |demon| < 1e-8 is demon = 0, and the division
\* by demon (1 or -1) is exact
Parallelogram_hit(self, ray, ray_t) ==
  LET demon == dot(self.normal, ray.direction)
  IN  IF demon = 0 THEN <<>>
      ELSE LET t == (self.d - dot(self.normal, ray.origin)) \div demon
           IN  IF ~contains(ray_t, t) THEN <<>>
               ELSE LET intersection   == at(ray, t)
                        planar_hit_vec == VSub(intersection, self.corner)
                        alpha == [num |-> dot(self.w.num, cross(planar_hit_vec, self.v)),
                                  den |-> self.w.den]
                        beta  == [num |-> dot(self.w.num, cross(self.u, planar_hit_vec)),
                                  den |-> self.w.den]
                        uv    == Parallelogram_is_interior(alpha, beta)
                    IN  IF uv = <<>> THEN <<>>
                        ELSE <<from_incoming_ray(ray, intersection, self.normal, t,
                                                 uv[1][1], uv[1][2], self.material)>>

\* Triangle::new and Disc::new compute the same fields as Parallelogram::new
Triangle_new(corner, u, v, material) ==
  [Parallelogram_new(corner, u, v, material) EXCEPT !.kind = "Triangle"]

Disc_new(corner, u, v, material) ==
  [Parallelogram_new(corner, u, v, material) EXCEPT !.kind = "Disc"]

Triangle_hit(self, ray, ray_t) ==
  LET demon == dot(self.normal, ray.direction)
  IN  IF demon = 0 THEN <<>>
      ELSE LET t == (self.d - dot(self.normal, ray.origin)) \div demon
           IN  IF ~contains(ray_t, t) THEN <<>>
               ELSE LET intersection   == at(ray, t)
                        planar_hit_vec == VSub(intersection, self.corner)
                        alpha == [num |-> dot(self.w.num, cross(planar_hit_vec, self.v)),
                                  den |-> self.w.den]
                        beta  == [num |-> dot(self.w.num, cross(self.u, planar_hit_vec)),
                                  den |-> self.w.den]
                        uv    == Triangle_is_interior(alpha, beta)
                    IN  IF uv = <<>> THEN <<>>
                        ELSE <<from_incoming_ray(ray, intersection, self.normal, t,
                                                 uv[1][1], uv[1][2], self.material)>>

Disc_hit(self, ray, ray_t) ==
  LET demon == dot(self.normal, ray.direction)
  IN  IF demon = 0 THEN <<>>
      ELSE LET t == (self.d - dot(self.normal, ray.origin)) \div demon
           IN  IF ~contains(ray_t, t) THEN <<>>
               ELSE LET intersection   == at(ray, t)
                        planar_hit_vec == VSub(intersection, self.corner)
                        alpha == [num |-> dot(self.w.num, cross(planar_hit_vec, self.v)),
                                  den |-> self.w.den]
                        beta  == [num |-> dot(self.w.num, cross(self.u, planar_hit_vec)),
                                  den |-> self.w.den]
                        uv    == Disc_is_interior(alpha, beta)
                    IN  IF uv = <<>> THEN <<>>
                        ELSE <<from_incoming_ray(ray, intersection, self.normal, t,
                                                 uv[1][1], uv[1][2], self.material)>>

\* the outcome of a constructor that aborts (unwrap / expect on None)
Panic == [kind |-> "panic"]

\* the outcome of a call that never returns
Diverges == [kind |-> "diverges"]

\* the outcome of a call that returns value
Returned(value) == [kind |-> "returned", value |-> value]

(***************************************************************************)
(* Sphere (hittable.rs).  The rays and spheres used have a discriminant    *)
(* that is negative or a perfect square and roots that are integers        *)
(* (ExactSphereCase), so sqrt and the division by a are exact.             *)
(***************************************************************************)
MaxRadius == 5

\* Ray3: center.at(time)
Ray3_new(origin, direction) == [origin |-> origin, direction |-> direction]

Sphere_new(center, radius, material) ==
  IF radius < 0 THEN Panic
  ELSE LET rad_vec == <<radius, radius, radius>>
           box0 == bounded_by(VSub(center.origin, rad_vec), VAdd(center.origin, rad_vec))
           box1 == bounded_by(VSub(at(center, 1), rad_vec), VAdd(at(center, 1), rad_vec))
       IN  [kind |-> "Sphere", center |-> center, radius |-> radius,
            material |-> material, bounding_box |-> extending(box0, box1)]

\* f64::sqrt of a perfect square
sqrt(d) == CHOOSE s \in 0..d : s * s <= d /\ d < (s + 1) * (s + 1)

\* n / d in f64 for integers with d dividing n; x / 0.0 is NaN or an infinity
FDiv(n, d) ==
  IF d = 0 THEN (IF n = 0 THEN NaN ELSE IF n > 0 THEN PInf ELSE NInf)
  ELSE (n * FSign(d)) \div (d * FSign(d))

Sphere_discriminant(self, ray) ==
  LET oc == VSub(at(self.center, ray.time), ray.origin)
      a  == dot(ray.direction, ray.direction)
      h  == dot(ray.direction, oc)
      c  == dot(oc, oc) - self.radius * self.radius
  IN  h * h - a * c

ExactSphereCase(self, ray) ==
  LET oc == VSub(at(self.center, ray.time), ray.origin)
      a  == dot(ray.direction, ray.direction)
      h  == dot(ray.direction, oc)
      d  == Sphere_discriminant(self, ray)
  IN  IF d < 0 THEN TRUE
      ELSE /\ sqrt(d) * sqrt(d) = d
           /\ a # 0
           /\ (h - sqrt(d)) % a = 0
           /\ (h + sqrt(d)) % a = 0

\* the root Sphere::hit settles on: <<>> where it returns None
Sphere_root(self, ray, ray_t) ==
  LET oc == VSub(at(self.center, ray.time), ray.origin)
      a  == dot(ray.direction, ray.direction)
      h  == dot(ray.direction, oc)
      discriminant == Sphere_discriminant(self, ray)
  IN  IF discriminant < 0 THEN <<>>
      ELSE LET sqrtd  == sqrt(discriminant)
               first  == FDiv(h - sqrtd, a)
               second == FDiv(h + sqrtd, a)
           IN  IF surrounds(ray_t, first) THEN <<first>>
               ELSE IF surrounds(ray_t, second) THEN <<second>>
               ELSE <<>>

(***************************************************************************)
(* Sphere::get_uv on the points whose coordinates are sin(k * pi/4):       *)
(* a coordinate is [k, neg] with k in -2..2 (0, +-sqrt(1/2), +-1) and neg  *)
(* the sign bit of a zero (-0.0).  Angles are integers in units of pi/4,   *)
(* u and v fractions [num, den].                                           *)
(***************************************************************************)
Coord(k, neg) == [k |-> k, neg |-> neg]

\* -x on an f64: the sign bit of a zero flips too
Coord_neg(c) == Coord(0 - c.k, c.k = 0 /\ ~c.neg)

\* the square of sin(k * pi/4), in halves
Coord_sq(c) == <<2, 1, 0, 1, 2>>[c.k + 3]

\* f64::acos of sin(k * pi/4): pi/2 - k * pi/4
acos(c) == 2 - c.k

\* a faulty variant of atan2: the sign bit of a zero y is ignored
atan2_unsigned_zero(y, x) ==
  IF y.k = 0
  THEN (IF x.k > 0 \/ (x.k = 0 /\ ~x.neg) THEN 0 ELSE 4)
  ELSE IF x.k = 0 THEN 2 * FSign(y.k)
  ELSE FSign(y.k) * (IF x.k > 0 THEN 1 ELSE 3)

\* f64::atan2(y, x) for |y| = |x| or one of them zero: atan2(+-0, x) is +-0
\* for x > 0 or x = +0 and +-pi for x < 0 or x = -0
atan2(y, x) ==
  IF y.k = 0
  THEN (IF x.k > 0 \/ (x.k = 0 /\ ~x.neg) THEN 0 ELSE IF y.neg THEN -4 ELSE 4)
  ELSE IF x.k = 0 THEN 2 * FSign(y.k)
  ELSE FSign(y.k) * (IF x.k > 0 THEN 1 ELSE 3)

\* Sphere::get_uv(point): the assertion is on len_squared, at most 1.0001
Sphere_get_uv(point) ==
  IF Coord_sq(point[1]) + Coord_sq(point[2]) + Coord_sq(point[3]) > 2 THEN Panic
  ELSE LET theta == acos(Coord_neg(point[2]))
           phi   == atan2(Coord_neg(point[3]), point[1]) + 4
       IN  Returned([u |-> [num |-> phi, den |-> 8], v |-> [num |-> theta, den |-> 4]])

\* Sphere::get_uv asserts len_squared <= 1.0001 of (point - center) / radius;
\* with radius 0 the quotient is NaN or infinite and the assertion fails
get_uv_panics(self) == self.radius = 0

\* Sphere::hit.  The normal of the record is (point - center) / radius in
\* units of 1/radius, so that it stays an integer vector; u and v stand for
\* the angles get_uv computes from it.
Sphere_hit(self, ray, ray_t) ==
  LET current_center == at(self.center, ray.time)
      root == Sphere_root(self, ray, ray_t)
  IN  IF root = <<>> THEN Returned(<<>>)
      ELSE IF get_uv_panics(self) THEN Panic
      ELSE LET point  == at(ray, root[1])
               normal == VSub(point, current_center)
           IN  Returned(<<from_incoming_ray(ray, point, normal, root[1],
                                            [phi_of |-> normal], [theta_of |-> normal],
                                            self.material)>>)

\* Hittable::bounding_box, by implementor
bounding_box(obj) ==
  CASE obj.kind = "HittableVec" -> obj.bounding_box
    [] obj.kind = "BVHNode" -> <<obj.bbox>>
    [] OTHER -> <<obj.bounding_box>>

HittableVec_new == [kind |-> "HittableVec", objects |-> <<>>, bounding_box |-> <<>>]

\* a faulty variant of HittableVec_add: the aggregate box is replaced by the
\* box of the last primitive
HittableVec_add_last_box(self, obj) ==
  IF bounding_box(obj) = <<>> THEN Panic
  ELSE [kind |-> "HittableVec",
        objects |-> Append(self.objects, obj),
        bounding_box |-> <<bounding_box(obj)[1]>>]

\* obj.bounding_box().unwrap() runs before self is assigned
HittableVec_add(self, obj) ==
  IF bounding_box(obj) = <<>> THEN Panic
  ELSE [kind |-> "HittableVec",
        objects |-> Append(self.objects, obj),
        bounding_box |->
          IF self.bounding_box # <<>>
          THEN <<extending(self.bounding_box[1], bounding_box(obj)[1])>>
          ELSE <<bounding_box(obj)[1]>>]

\* &BoundingBox3 + Vec3: every interval moved by the offset
BoundingBox3_add(bbox, offset) ==
  [x |-> Interval_new(FAdd(bbox.x.start, offset[1]), FAdd(bbox.x.end, offset[1])),
   y |-> Interval_new(FAdd(bbox.y.start, offset[2]), FAdd(bbox.y.end, offset[2])),
   z |-> Interval_new(FAdd(bbox.z.start, offset[3]), FAdd(bbox.z.end, offset[3]))]

Translate_new(object, offset) ==
  IF bounding_box(object) = <<>> THEN Panic
  ELSE [kind |-> "Translate", object |-> object, offset |-> offset,
        bounding_box |-> BoundingBox3_add(bounding_box(object)[1], offset)]

\* sin and cos of an angle of q quarter turns
sin_q(q) == <<0, 1, 0, -1>>[(q % 4) + 1]
cos_q(q) == <<1, 0, -1, 0>>[(q % 4) + 1]

\* the corner (i, j, k) of bbox, rotated
RotateY_tester(bbox, sin_theta, cos_theta, i, j, k) ==
  LET x == FAdd(FMul(i, bbox.x.end), FMul(1 - i, bbox.x.start))
      y == FAdd(FMul(j, bbox.y.end), FMul(1 - j, bbox.y.start))
      z == FAdd(FMul(k, bbox.z.end), FMul(1 - k, bbox.z.start))
  IN  <<FAdd(FMul(cos_theta, x), FMul(sin_theta, z)),
        y,
        FAdd(FMul(-sin_theta, x), FMul(cos_theta, z))>>

\* the three nested loops over i, j, k in 0..2, as one loop over n in 0..7
RECURSIVE RotateY_minmax(_, _, _, _, _, _)
RotateY_minmax(bbox, sin_theta, cos_theta, n, min, max) ==
  IF n > 7 THEN <<min, max>>
  ELSE LET tester == RotateY_tester(bbox, sin_theta, cos_theta,
                                    n \div 4, (n \div 2) % 2, n % 2)
       IN  RotateY_minmax(bbox, sin_theta, cos_theta, n + 1,
             <<FMin(min[1], tester[1]), FMin(min[2], tester[2]), FMin(min[3], tester[3])>>,
             <<FMax(max[1], tester[1]), FMax(max[2], tester[2]), FMax(max[3], tester[3])>>)

RotateY_new(object, q) ==
  IF bounding_box(object) = <<>> THEN Panic
  ELSE LET mm == RotateY_minmax(bounding_box(object)[1], sin_q(q), cos_q(q), 0,
                                <<PInf, PInf, PInf>>, <<NInf, NInf, NInf>>)
       IN  [kind |-> "RotateY", object |-> object,
            sin_theta |-> sin_q(q), cos_theta |-> cos_q(q),
            bounding_box |-> bounded_by(mm[1], mm[2])]

(***************************************************************************)
(* Hittable::hit, by implementor.  The spheres reached through it have a   *)
(* positive radius, so Sphere::hit returns.                                *)
(***************************************************************************)
RECURSIVE Hittable_hit(_, _, _)
RECURSIVE HittableVec_hit_from(_, _, _, _, _, _)

\* the loop of HittableVec::hit from object i on
HittableVec_hit_from(objects, i, ray, ray_t, closest_dist, closest_record) ==
  IF i > Len(objects) THEN closest_record
  ELSE LET record == Hittable_hit(objects[i], ray, Interval_new(ray_t.start, closest_dist))
       IN  IF record # <<>>
           THEN HittableVec_hit_from(objects, i + 1, ray, ray_t, record[1].t, record)
           ELSE HittableVec_hit_from(objects, i + 1, ray, ray_t, closest_dist, closest_record)

HittableVec_hit(self, ray, ray_t) ==
  HittableVec_hit_from(self.objects, 1, ray, ray_t, ray_t.end, <<>>)

\* the ray moved backwards by the offset
Translate_offset_ray(self, ray) ==
  Ray4_new(VSub(ray.origin, self.offset), ray.direction, ray.time)

Translate_hit(self, ray, ray_t) ==
  LET hit == Hittable_hit(self.object, Translate_offset_ray(self, ray), ray_t)
  IN  IF hit = <<>> THEN <<>>
      ELSE <<[hit[1] EXCEPT !.point = VAdd(hit[1].point, self.offset)]>>

\* the ray in object space
RotateY_rotated_ray(self, ray) ==
  LET c == self.cos_theta
      s == self.sin_theta
      origin == <<c * ray.origin[1] - s * ray.origin[3],
                  ray.origin[2],
                  s * ray.origin[1] + c * ray.origin[3]>>
      direction == <<c * ray.direction[1] - s * ray.direction[3],
                     ray.direction[2],
                     s * ray.direction[1] + c * ray.direction[3]>>
  IN  Ray4_new(origin, direction, ray.time)

RotateY_hit(self, ray, ray_t) ==
  LET c == self.cos_theta
      s == self.sin_theta
      hit == Hittable_hit(self.object, RotateY_rotated_ray(self, ray), ray_t)
  IN  IF hit = <<>> THEN <<>>
      ELSE LET p == hit[1].point
               n == hit[1].normal
           IN  <<[hit[1] EXCEPT
                    !.point  = <<c * p[1] + s * p[3], p[2], (-s) * p[1] + c * p[3]>>,
                    !.normal = <<c * n[1] + s * n[3], n[2], (-s) * n[1] + c * n[3]>>]>>

\* hit_right.or(hit_left)
BVHNode_hit(self, ray, ray_t) ==
  IF ~BoundingBox3_hit(self.bbox, ray, ray_t) THEN <<>>
  ELSE LET hit_left  == Hittable_hit(self.left, ray, ray_t)
           hit_right == IF hit_left # <<>>
                        THEN Hittable_hit(self.right, ray,
                                          Interval_new(ray_t.start, hit_left[1].t))
                        ELSE Hittable_hit(self.right, ray, ray_t)
       IN  IF hit_right # <<>> THEN hit_right ELSE hit_left

Hittable_hit(obj, ray, ray_t) ==
  CASE obj.kind = "Parallelogram" -> Parallelogram_hit(obj, ray, ray_t)
    [] obj.kind = "Triangle" -> Triangle_hit(obj, ray, ray_t)
    [] obj.kind = "Disc" -> Disc_hit(obj, ray, ray_t)
    [] obj.kind = "Sphere" -> Sphere_hit(obj, ray, ray_t).value
    [] obj.kind = "HittableVec" -> HittableVec_hit(obj, ray, ray_t)
    [] obj.kind = "Translate" -> Translate_hit(obj, ray, ray_t)
    [] obj.kind = "RotateY" -> RotateY_hit(obj, ray, ray_t)
    [] obj.kind = "BVHNode" -> BVHNode_hit(obj, ray, ray_t)

(***************************************************************************)
(* BVHNode::new.  sort_unstable_by may leave equal keys in any order, so   *)
(* the constructor is modelled by the set of its possible outcomes: the    *)
(* trees over every sorted order, or Panic, or Diverges.                   *)
(***************************************************************************)
\* a faulty variant of the loop of BVHNode::new: the box of the first
\* primitive is taken for the aggregate
BVHNode_bbox_from_first(objects, i, bbox) ==
  IF objects = <<>> THEN bbox ELSE extending_opt(<<bbox>>, bounding_box(objects[1]))

\* the loop computing the aggregate box of BVHNode::new
RECURSIVE BVHNode_bbox_from(_, _, _)
BVHNode_bbox_from(objects, i, bbox) ==
  IF i > Len(objects) THEN bbox
  ELSE BVHNode_bbox_from(objects, i + 1, extending_opt(<<bbox>>, bounding_box(objects[i])))

\* a faulty variant of cmp_box: the order reversed
cmp_box_ge(a, b, axis) == FLe(bounding_box(b)[1][axis].start, bounding_box(a)[1][axis].start)

\* cmp_box on two objects that have a box: the order of the starts
cmp_box_le(a, b, axis) == FLe(bounding_box(a)[1][axis].start, bounding_box(b)[1][axis].start)

\* the orders of the indices in S, each index once
RECURSIVE OrdersOf(_)
OrdersOf(S) ==
  IF S = {} THEN {<<>>}
  ELSE UNION {{<<i>> \o p : p \in OrdersOf(S \ {i})} : i \in S}

IndexOrders(n) == OrdersOf(1..n)

\* the orders sort_unstable_by(comparator) can leave the list in
SortedOrders(objects, axis) ==
  {[i \in 1..Len(objects) |-> objects[p[i]]] : p \in
     {q \in IndexOrders(Len(objects)) :
        \A i \in 1..(Len(objects) - 1) : cmp_box_le(objects[q[i]], objects[q[i + 1]], axis)}}

BVHNode_make(left, right, bbox) ==
  IF left = Panic \/ right = Panic THEN Panic
  ELSE [kind |-> "BVHNode", left |-> left, right |-> right, bbox |-> bbox]

\* a faulty variant of BVHNode::new: the sorted list is split after its
\* first primitive
RECURSIVE BVHNode_new_peeling(_)
BVHNode_new_peeling(objects) ==
  LET bbox == BVHNode_bbox_from(objects, 1, BoundingBox3_empty)
      axis == longest_axis(bbox)
      n    == Len(objects)
  IN  IF n = 1 THEN {BVHNode_make(objects[1], objects[1], bbox)}
      ELSE IF n = 2 THEN {BVHNode_make(objects[1], objects[2], bbox)}
      ELSE IF n = 0 THEN {Diverges}
      ELSE IF \E i \in 1..n : bounding_box(objects[i]) = <<>> THEN {Panic}
      ELSE UNION {
             {BVHNode_make(l, r, bbox) :
                l \in BVHNode_new_peeling(SubSeq(sorted, 1, 1)),
                r \in BVHNode_new_peeling(SubSeq(sorted, 2, n))} :
             sorted \in SortedOrders(objects, axis)}

RECURSIVE BVHNode_new(_)
BVHNode_new(objects) ==
  LET bbox == BVHNode_bbox_from(objects, 1, BoundingBox3_empty)
      axis == longest_axis(bbox)
      n    == Len(objects)
  IN  IF n = 1 THEN {BVHNode_make(objects[1], objects[1], bbox)}
      ELSE IF n = 2 THEN {BVHNode_make(objects[1], objects[2], bbox)}
      ELSE IF n = 0 THEN {Diverges}    \* recurses on two empty lists, for ever
      ELSE IF \E i \in 1..n : bounding_box(objects[i]) = <<>> THEN {Panic}
      ELSE LET mid == n \div 2
           IN  UNION {
                 {BVHNode_make(l, r, bbox) :
                    l \in BVHNode_new(SubSeq(sorted, 1, mid)),
                    r \in BVHNode_new(SubSeq(sorted, mid + 1, n))} :
                 sorted \in SortedOrders(objects, axis)}

(***************************************************************************)
(* CameraBuilder and Camera::build (camera.rs)                             *)
(*                                                                         *)
(* The f64 arguments of the setters are fixed-point numbers: aspect ratios *)
(* and lengths in tenths, angles in hundredths of a degree, colour         *)
(* channels in 1/ColorOne.  A message is the text of the format string and *)
(* the value it interpolates.                                              *)
(***************************************************************************)
\* f64::round followed by `as u32`, applied to num / den for num >= 0 and
\* den > 0 (every aspect ratio passed below is positive): halves round away
\* from zero
round_as_u32(num, den) == (2 * num + den) \div (2 * den)

to_radians(deg100) == [unit |-> "rad", deg100 |-> deg100]

ColorOne == 20

Color_is_valid(col) == \A i \in 1..3 : col[i] >= 0 /\ col[i] <= ColorOne

Message(text, found) == [text |-> text, found |-> found]

CameraBuilder_default ==
  [image_width |-> 400, image_height |-> 200, vfov |-> to_radians(9000),
   antialiasing_type |-> "Square", samples_per_px |-> 10, max_depth |-> 10,
   background |-> [kind |-> "Sky"],
   camera_center |-> <<0, 0, 0>>, camera_target |-> <<0, 0, -1>>,
   vup |-> <<0, 1, 0>>, defocus_angle |-> to_radians(0), focal_length |-> 10,
   export_writer |-> <<>>, errors |-> <<>>]

CameraBuilder_new == CameraBuilder_default

\* a faulty variant of add_error: the new message replaces the list
add_error_replacing(self, err) ==
  [self EXCEPT !.errors = <<[err EXCEPT !.text = "CameraBuilder::" \o @]>>]

add_error(self, err) ==
  [self EXCEPT !.errors = Append(@, [err EXCEPT !.text = "CameraBuilder::" \o @])]

error(self, condition, err) == IF condition THEN add_error(self, err) ELSE self

CameraBuilder_dimensions(self, width, height) ==
  LET s1 == error(self, width <= 1,
                  Message("dimensions: Invalid width: must be greater than 1, found", width))
      s2 == error(s1, height <= 1,
                  Message("dimensions: Invalid height: must be greater than 1, found", height))
  IN  [s2 EXCEPT !.image_width = width, !.image_height = height]

CameraBuilder_with_aspect_ratio(self, width, aspect_ratio) ==
  LET s1 == error(self, width <= 1,
                  Message("with_aspect_ratio: Invalid width: must be greater than 1, found",
                          width))
      s2 == error(s1, ~(1 <= aspect_ratio /\ aspect_ratio <= 1000),
                  Message("with_aspect_ratio: Invalid aspect_ratio: must be between 0.1 and 100.0, found",
                          aspect_ratio))
  IN  [s2 EXCEPT !.image_width = width,
                 !.image_height = round_as_u32(10 * width, aspect_ratio)]

CameraBuilder_max_depth(self, depth) ==
  [error(self, depth < 1,
         Message("max_depth: Invalid depth: must be at least 1, found", depth))
     EXCEPT !.max_depth = depth]

CameraBuilder_background(self, bg) ==
  LET s1 == IF bg.kind = "Constant"
            THEN error(self, ~Color_is_valid(bg.col),
                       Message("background: Invalid color provided.", bg.col))
            ELSE self
  IN  [s1 EXCEPT !.background = bg]

CameraBuilder_antialias(self, antialiasing_type, samples_per_px) ==
  [error(self, samples_per_px < 1,
         Message("antialias: Invalid samples_per_px: must be at least 1, found",
                 samples_per_px))
     EXCEPT !.antialiasing_type = antialiasing_type,
            !.samples_per_px = samples_per_px]

CameraBuilder_camera_center(self, center) == [self EXCEPT !.camera_center = center]

CameraBuilder_focal_length(self, length) ==
  [error(self, length <= 0,
         Message("focal_length: Invalid length: must be greater than 0.0, found", length))
     EXCEPT !.focal_length = length]

CameraBuilder_vfov(self, deg) ==
  [error(self, ~(1 <= deg /\ deg < 36000),
         Message("vfov: Invalid deg: must be between 0.01 and 360.0, found", deg))
     EXCEPT !.vfov = to_radians(deg)]

CameraBuilder_camera_target(self, target) == [self EXCEPT !.camera_target = target]

CameraBuilder_vup(self, vec) == [self EXCEPT !.vup = as_unit(vec)]

CameraBuilder_defocus_angle(self, angle) ==
  [error(self, ~(0 <= angle /\ angle < 18000),
         Message("defocus_angle: Invalid angle: must be between 0.0 and 180.0, found", angle))
     EXCEPT !.defocus_angle = to_radians(angle)]

CameraBuilder_writer(self, w) == [self EXCEPT !.export_writer = <<w>>]

\* a faulty variant of the square root: the sample count itself
sqrt_as_u32_exact(n) == n

\* `f64::from(n).sqrt() as u32`: the integer square root, rounded down
sqrt_as_u32(n) == CHOOSE k \in 0..n : k * k <= n /\ (k + 1) * (k + 1) > n

\* Camera::build; of the viewport geometry the record keeps the directions of
\* pxdelta_u and pxdelta_v (viewport_u is a positive multiple of u and
\* viewport_v of -v); their lengths, pixel_00 and the defocus disk are left out.
Camera_build(b) ==
  LET sqrt_spp == sqrt_as_u32(b.samples_per_px)
      samples_per_px == sqrt_spp * sqrt_spp
      w == as_unit(VSub(b.camera_center, b.camera_target))
      u == cross(b.vup, w)
      v == cross(w, u)
  IN  IF b.errors # <<>> \/ b.export_writer = <<>> THEN Panic
      ELSE [image_width |-> b.image_width, image_height |-> b.image_height,
            camera_center |-> b.camera_center,
            pxdelta_u_dir |-> u, pxdelta_v_dir |-> VNeg(v),
            antialiasing_type |-> b.antialiasing_type,
            samples_per_px |-> samples_per_px,
            px_sample_scale |-> [num |-> 1, den |-> samples_per_px],
            sqrt_spp |-> sqrt_spp,
            sqrt_spp_scale |-> [num |-> 1, den |-> sqrt_spp],
            max_depth |-> b.max_depth, background |-> b.background,
            defocus_angle |-> b.defocus_angle,
            export_writer |-> b.export_writer[1]]

\* (the source quotes .writer() in backticks)
MissingWriter ==
  Message("build: Missing export format: include the .writer() parameter to specify the export format",
          <<>>)

CameraBuilder_build(self) ==
  LET s == error(self, self.export_writer = <<>>, MissingWriter)
  IN  IF s.errors # <<>> THEN [kind |-> "Err", errors |-> s.errors]
      ELSE [kind |-> "Ok", camera |-> Camera_build(s)]

(***************************************************************************)
(* Color (math/color.rs), materials (material.rs) and the sky              *)
(*                                                                         *)
(* A colour channel is an integer in units of 1/ColorOne.  Every           *)
(* attenuation used below has channels 0 or ColorOne, so the product of    *)
(* Color::mul is exact.                                                    *)
(***************************************************************************)
Color_black == <<0, 0, 0>>
Color_white == <<ColorOne, ColorOne, ColorOne>>

Color_add(a, b) == [i \in 1..3 |-> a[i] + b[i]]

Color_mul(a, b) == [i \in 1..3 |-> (a[i] * b[i]) \div ColorOne]

\* set_brightness by a scale num/den: the channels become fractions
Color_set_brightness(col, scale) ==
  [num |-> [i \in 1..3 |-> col[i] * scale.num], den |-> scale.den * ColorOne]

\* Camera::skybox_bg for an axis-aligned ray: intensity = (nd.y + 1) / 2
skybox_bg(ray) ==
  LET nd == as_unit(ray.direction)
      h == nd[2] + 1
      coloring == <<ColorOne \div 2, (7 * ColorOne) \div 10, ColorOne>>
  IN  [i \in 1..3 |-> (ColorOne * (2 - h) + coloring[i] * h) \div 2]

\* ((color << shl) & mask) >> shr on a u32, for the mask of n bits from bit
\* lo up (lo >= shl, lo >= shr, lo + n <= 32): the bits a left shift pushes
\* past bit 31 are above the mask, so the wrap of << does not show
shl_and_shr(color, shl, lo, n, shr) ==
  (((color \div (2 ^ (lo - shl))) % (2 ^ n)) * (2 ^ lo)) \div (2 ^ shr)

HEX3_MAX == 4095

\* Color::hex.  The channels are kept as the integers r, g, b that the code
\* divides by 255.0: <<255, 255, 255>> is white.
Color_hex(color) ==
  IF color <= HEX3_MAX
  THEN LET r == shl_and_shr(color, 0, 8, 4, 8)
           g == shl_and_shr(color, 4, 8, 4, 8)
           b == shl_and_shr(color, 8, 8, 4, 8)
       IN  <<r * 16, g * 16, b * 16>>
  ELSE LET r == shl_and_shr(color, 0, 16, 8, 16)
           g == shl_and_shr(color, 8, 16, 8, 16)
           b == shl_and_shr(color, 16, 16, 8, 16)
       IN  <<r, g, b>>

Lambertian_solid(albedo) == [kind |-> "Lambertian", texture |-> albedo]
DiffuseLight_solid(albedo) == [kind |-> "DiffuseLight", texture |-> albedo]
Metal_with_fuzz(albedo, fuzz) == [kind |-> "Metal", albedo |-> albedo, fuzz |-> fuzz]
Metal_new(albedo) == Metal_with_fuzz(albedo, 0)
Dielectric_new(refraction_index) ==
  [kind |-> "Dielectric", refraction_index |-> refraction_index]
Isotropic_colored(color) == [kind |-> "Isotropic", texture |-> color]

\* Material::emitted: black unless overridden (DiffuseLight, front face only)
Material_emitted(mat, record) ==
  IF mat.kind = "DiffuseLight" /\ record.front_face THEN mat.texture ELSE Color_black

\* Material::scatter.  rnd holds the random draws: the scattered direction
\* and, for a Metal with fuzz > 0, whether the perturbed reflection ends
\* below the surface (with fuzz = 0 the reflection of a ray about the normal
\* facing it is never below).  The struct literals of Metal and Dielectric
\* evaluate `pdf: todo!()`, which panics.
Material_scatter(mat, ray_in, record, rnd) ==
  LET scattered == Ray4_new(record.point, rnd.direction, ray_in.time)
  IN  CASE mat.kind = "Lambertian" ->
             Returned(<<[attenuation |-> mat.texture, scattered |-> scattered]>>)
        [] mat.kind = "DiffuseLight" -> Returned(<<>>)
        [] mat.kind = "Metal" ->
             IF mat.fuzz > 0 /\ rnd.below THEN Returned(<<>>) ELSE Panic
        [] mat.kind = "Dielectric" -> Panic
        [] mat.kind = "Isotropic" ->
             Returned(<<[attenuation |-> mat.texture, scattered |-> scattered]>>)

\* a faulty variant of nested_depth: the depth is not decremented
nested_depth_unchanged(depth) == depth

\* the depth handed to the nested call of ray_color
nested_depth(depth) == depth - 1

\* what ray_color returns on a miss
Background_color(bg, ray) == IF bg.kind = "Constant" THEN bg.col ELSE skybox_bg(ray)

(***************************************************************************)
(* State                                                                   *)
(***************************************************************************)
VARIABLES
  boxes,    \* three BoundingBox3 values built from the public constructors
  world,    \* the HittableVec being filled by add
  bvh,      \* <<>>, or <<[from, tree]>>: the list given to BVHNode::new and its outcome
  query,    \* <<>>, or <<[ray, ray_t, vec, bvh]>>: the last ray and what each hit returned
  last,     \* <<>>, or <<[op, none_arg, len, outcome]>>: the last constructor call
  builder,  \* the CameraBuilder being configured
  calls,    \* the setter calls made on builder so far, in call order
  built,    \* <<>>, or <<r>>: what build() returned
  render,   \* the Camera being rendered, the loop position of render and its buffer
  rc_status,   \* "idle", "running", "returned" or "panicked": the top-level ray_color call
  rc_cfg,      \* [background, depth]: the camera's background and the depth of the top call
  rc_stack,    \* the active calls of ray_color, the innermost last
  rc_ret,      \* <<>>, or <<[level, color]>>: the value the last finished call returned
  rc_log,      \* per call, outermost first: what the call met (depth 0, miss, hit)
  rc_queries,  \* number of world.hit queries made since the top call
  rc_calls,    \* number of nested calls made since the top call
  frame,       \* main's frame: the scene as render received it, the pixels, the writer
  applied      \* <<>>, or <<[fn, args, result]>>: the last call of a pure function

boxVars == <<boxes>>
sceneVars == <<world, bvh, query, last>>
builderVars == <<builder, calls, built>>
renderVars == <<render>>
rayColorVars == <<rc_status, rc_cfg, rc_stack, rc_ret, rc_log, rc_queries, rc_calls>>
frameVars == <<frame>>
callVars == <<applied>>
vars == <<boxVars, sceneVars, builderVars, renderVars, rayColorVars, frameVars, callVars>>

\* the variables each group of actions leaves alone
nonBoxVars == <<sceneVars, builderVars, renderVars, rayColorVars, frameVars, callVars>>
nonSceneVars == <<boxVars, builderVars, renderVars, rayColorVars, frameVars, callVars>>
nonBuilderVars == <<boxVars, sceneVars, renderVars, rayColorVars, frameVars, callVars>>
nonRenderVars == <<boxVars, sceneVars, builderVars, rayColorVars, frameVars, callVars>>
nonRayColorVars == <<boxVars, sceneVars, builderVars, renderVars, frameVars, callVars>>
nonFrameVars == <<boxVars, builderVars, renderVars, rayColorVars, callVars>>
nonCallVars == <<boxVars, sceneVars, builderVars, renderVars, rayColorVars, frameVars>>

(***************************************************************************)
(* The box constructors, applied to three registers                        *)
(***************************************************************************)
Regs == 1..3

\* corner points handed to bounded_by
Points == {<<0, 0, 0>>, <<1, 0, MaxCoord>>}

\* intervals handed to BoundingBox3::new; its documentation asks for start <= end
NewIntervals == {Interval_new(0, 1), Interval_new(1, MaxCoord + 2)}

InitBoxes == boxes = [r \in Regs |-> BoundingBox3_empty]

BoxEmpty(r) ==
  /\ boxes' = [boxes EXCEPT ![r] = BoundingBox3_empty]
  /\ UNCHANGED nonBoxVars

BoxUniverse(r) ==
  /\ boxes' = [boxes EXCEPT ![r] = BoundingBox3_universe]
  /\ UNCHANGED nonBoxVars

BoxBoundedBy(r) ==
  /\ \E a \in Points, b \in Points : boxes' = [boxes EXCEPT ![r] = bounded_by(a, b)]
  /\ UNCHANGED nonBoxVars

BoxNew(r) ==
  /\ \E x \in NewIntervals, y \in NewIntervals :
       boxes' = [boxes EXCEPT ![r] = BoundingBox3_new(x, y, x)]
  /\ UNCHANGED nonBoxVars

BoxExtending(r) ==
  /\ \E s \in Regs, t \in Regs :
       boxes' = [boxes EXCEPT ![r] = extending(boxes[s], boxes[t])]
  /\ UNCHANGED nonBoxVars

BoxExtendingOpt(r) ==
  /\ \E a \in {<<>>} \cup {<<boxes[s]>> : s \in Regs},
        b \in {<<>>} \cup {<<boxes[s]>> : s \in Regs} :
       boxes' = [boxes EXCEPT ![r] = extending_opt(a, b)]
  /\ UNCHANGED nonBoxVars

NextBox ==
  \E r \in Regs :
    \/ BoxEmpty(r)
    \/ BoxUniverse(r)
    \/ BoxBoundedBy(r)
    \/ BoxNew(r)
    \/ BoxExtending(r)
    \/ BoxExtendingOpt(r)


(***************************************************************************)
(* Building a scene and querying it: HittableVec::add, the transform       *)
(* wrappers, BVHNode::new, and one ray against both structures             *)
(***************************************************************************)
\* Camera::ray_color queries (0.001, inf); 0.001 is 20 units of DELTA/2
T_MIN == 20

\* most primitives in a scene
MaxObjects == 3

Quad(corner, material) == Parallelogram_new(corner, <<2, 0, 0>>, <<0, 2, 0>>, material)

\* the primitives a program hands to add: two coplanar quads with different
\* materials and one behind them
Quads == {Quad(<<0, 0, 0>>, "m1"), Quad(<<0, 0, 0>>, "m2"), Quad(<<0, 0, 4>>, "m3")}

\* what a program hands to a wrapper: a quad, or a list that is still empty
\* and so reports no bounding box
Wrappable == {Quad(<<0, 0, 0>>, "m1"), HittableVec_new}

Offsets == {<<0, 0, 2>>}
QuarterTurns == {1}

RayOrigins == {<<1, 1, -25>>, <<0, 1, -25>>, <<-25, 25, 25>>}
RayDirections == {<<0, 0, 1>>, <<1, -1, -1>>, <<1, 0, 1>>}
Rays == {Ray4_new(o, d, 0) : o \in RayOrigins, d \in RayDirections}

QueryIntervals == {Interval_new(T_MIN, PInf), Interval_new(T_MIN, 25), Interval_universe}

InitScene ==
  /\ world = HittableVec_new
  /\ bvh = <<>>
  /\ query = <<>>
  /\ last = <<>>

Called(op, none_arg, n, result) ==
  <<[op |-> op, none_arg |-> none_arg, len |-> n,
     outcome |-> IF result = Panic THEN "panic"
                 ELSE IF result = Diverges THEN "diverges" ELSE "ok"]>>

\* world.add(obj), before the BVH is built; an abort leaves world as it was
SceneAddTo(obj) ==
  LET added == HittableVec_add(world, obj)
  IN  /\ world' = IF added = Panic THEN world ELSE added
      /\ last' = Called("HittableVec::add", bounding_box(obj) = <<>>, 1, added)
      /\ UNCHANGED <<bvh, query>>

SceneAdd ==
  /\ bvh = <<>>
  /\ Len(world.objects) < MaxObjects
  /\ \E obj \in Quads \cup {HittableVec_new} : SceneAddTo(obj)
  /\ UNCHANGED nonSceneVars

\* world.add(Rc::new(Translate::new(obj, offset)))
SceneAddTranslated ==
  /\ bvh = <<>>
  /\ Len(world.objects) < MaxObjects
  /\ \E obj \in Wrappable, offset \in Offsets :
       LET made == Translate_new(obj, offset)
       IN  IF made = Panic
           THEN /\ last' = Called("Translate::new", bounding_box(obj) = <<>>, 1, made)
                /\ UNCHANGED <<world, bvh, query>>
           ELSE SceneAddTo(made)
  /\ UNCHANGED nonSceneVars

\* world.add(Rc::new(RotateY::new(obj, angle)))
SceneAddRotated ==
  /\ bvh = <<>>
  /\ Len(world.objects) < MaxObjects
  /\ \E obj \in Wrappable, q \in QuarterTurns :
       LET made == RotateY_new(obj, q)
       IN  IF made = Panic
           THEN /\ last' = Called("RotateY::new", bounding_box(obj) = <<>>, 1, made)
                /\ UNCHANGED <<world, bvh, query>>
           ELSE SceneAddTo(made)
  /\ UNCHANGED nonSceneVars

\* BVHNode::new(world.into()), or BVHNode::new of a vector of one to three
\* primitives put together without add
DirectLists ==
  {<<a>> : a \in Wrappable} \cup {<<a, b>> : a \in Wrappable, b \in Wrappable}
    \cup {<<a, b, c>> : a \in Wrappable, b \in Wrappable, c \in Wrappable}

SceneBuildBVH ==
  /\ bvh = <<>>
  /\ \E objects \in {world.objects} \cup DirectLists :
       \E tree \in BVHNode_new(objects) :
         /\ bvh' = <<[from |-> objects, tree |-> tree]>>
         /\ last' = Called("BVHNode::new",
                           \E i \in 1..Len(objects) : bounding_box(objects[i]) = <<>>,
                           Len(objects), tree)
  /\ UNCHANGED <<world, query>>
  /\ UNCHANGED nonSceneVars

\* one ray against the list and against the BVH built from the same list
SceneQuery ==
  /\ bvh # <<>>
  /\ bvh[1].from = world.objects
  /\ bvh[1].tree.kind = "BVHNode"
  /\ \E ray \in Rays, ray_t \in QueryIntervals :
       query' = <<[ray |-> ray, ray_t |-> ray_t,
                   vec |-> Hittable_hit(world, ray, ray_t),
                   bvh |-> Hittable_hit(bvh[1].tree, ray, ray_t)]>>
  /\ UNCHANGED <<world, bvh, last>>
  /\ UNCHANGED nonSceneVars

NextScene ==
  \/ SceneAdd
  \/ SceneAddTranslated
  \/ SceneAddRotated
  \/ SceneBuildBVH
  \/ SceneQuery

(***************************************************************************)
(* Configuring a CameraBuilder and building the Camera                     *)
(***************************************************************************)
MaxCalls == 3

DimensionArgs == {<<1, 1>>, <<2, 2>>}
AspectArgs == {<<1, 1001>>, <<2, 1000>>, <<2, 10>>}
DepthArgs == {0, 1}
BackgroundArgs == {[kind |-> "Sky"], [kind |-> "Constant", col |-> <<0, 0, ColorOne + 1>>]}
SampleArgs == {0, 4}
LengthArgs == {0, 10}
VfovArgs == {9000, 36000}
DefocusArgs == {0, 18000}

InitBuilder ==
  /\ builder = CameraBuilder_new
  /\ calls = <<>>
  /\ built = <<>>

Call(op, args) == [op |-> op, args |-> args]

Configure(next, call) ==
  /\ built = <<>>
  /\ Len(calls) < MaxCalls
  /\ builder' = next
  /\ calls' = Append(calls, call)
  /\ UNCHANGED built
  /\ UNCHANGED nonBuilderVars

SetDimensions ==
  \E a \in DimensionArgs :
    Configure(CameraBuilder_dimensions(builder, a[1], a[2]), Call("dimensions", a))

SetWithAspectRatio ==
  \E a \in AspectArgs :
    Configure(CameraBuilder_with_aspect_ratio(builder, a[1], a[2]),
              Call("with_aspect_ratio", a))

SetMaxDepth ==
  \E d \in DepthArgs :
    Configure(CameraBuilder_max_depth(builder, d), Call("max_depth", <<d>>))

SetBackground ==
  \E bg \in BackgroundArgs :
    Configure(CameraBuilder_background(builder, bg), Call("background", <<bg>>))

SetAntialias ==
  \E n \in SampleArgs :
    Configure(CameraBuilder_antialias(builder, "Square", n), Call("antialias", <<n>>))

SetCameraCenter ==
  Configure(CameraBuilder_camera_center(builder, <<0, 0, 1>>),
            Call("camera_center", << <<0, 0, 1>> >>))

SetFocalLength ==
  \E l \in LengthArgs :
    Configure(CameraBuilder_focal_length(builder, l), Call("focal_length", <<l>>))

SetVfov ==
  \E deg \in VfovArgs :
    Configure(CameraBuilder_vfov(builder, deg), Call("vfov", <<deg>>))

SetCameraTarget ==
  Configure(CameraBuilder_camera_target(builder, <<0, 0, 0>>),
            Call("camera_target", << <<0, 0, 0>> >>))

SetVup ==
  Configure(CameraBuilder_vup(builder, <<0, 0, 2>>), Call("vup", << <<0, 0, 2>> >>))

SetDefocusAngle ==
  \E angle \in DefocusArgs :
    Configure(CameraBuilder_defocus_angle(builder, angle), Call("defocus_angle", <<angle>>))

SetWriter ==
  Configure(CameraBuilder_writer(builder, "PngWriter"), Call("writer", <<"PngWriter">>))

Build ==
  /\ built = <<>>
  /\ built' = <<CameraBuilder_build(builder)>>
  /\ UNCHANGED <<builder, calls>>
  /\ UNCHANGED nonBuilderVars

NextBuilder ==
  \/ SetDimensions
  \/ SetWithAspectRatio
  \/ SetMaxDepth
  \/ SetBackground
  \/ SetAntialias
  \/ SetCameraCenter
  \/ SetFocalLength
  \/ SetVfov
  \/ SetCameraTarget
  \/ SetVup
  \/ SetDefocusAngle
  \/ SetWriter
  \/ Build

(***************************************************************************)
(* Camera::render: one step per traced ray, per finished pixel             *)
(***************************************************************************)
MaxSamples == 5

\* image sizes the builder accepts
ImageDims == {<<2, 2>>, <<3, 2>>}

\* values ray_color returns for a camera ray
SampleColors == {Color_black, Color_white}

\* header_calls, write_calls and traced count the calls of write_header, of
\* write and of ray_color; a pixel of buf remembers the (i, j) it was
\* computed for
InitRender ==
  render = [pc |-> "idle", configured |-> 0, camera |-> <<>>, header |-> <<>>,
            j |-> 0, i |-> 0, strata_j |-> 0, strata_i |-> 0,
            px_color |-> Color_black, rays |-> 0, buf |-> <<>>, written |-> <<>>,
            header_calls |-> 0, write_calls |-> 0, traced |-> 0]

\* main.rs: the camera is configured with n samples per pixel and built
CameraReady ==
  \E n \in 1..MaxSamples, d \in ImageDims :
    LET b == CameraBuilder_writer(
               CameraBuilder_antialias(
                 CameraBuilder_dimensions(CameraBuilder_new, d[1], d[2]), "Square", n),
               "PngWriter")
        r == CameraBuilder_build(b)
    IN  /\ render.pc = "idle"
        /\ r.kind = "Ok"
        /\ render' = [render EXCEPT !.pc = "built", !.configured = n,
                                    !.camera = <<r.camera>>]
        /\ UNCHANGED nonRenderVars

\* a faulty variant of AtPixel: the row loop stops one row early
AtPixel_short(r, j, i) ==
  IF j + 1 < r.camera[1].image_height /\ r.camera[1].image_width > 0
  THEN [r EXCEPT !.pc = "sampling", !.j = j, !.i = i, !.strata_j = 0, !.strata_i = 0,
                 !.px_color = Color_black, !.rays = 0]
  ELSE [r EXCEPT !.pc = "write"]

\* where the loops stand once the pixel loops are entered at (j, i)
AtPixel(r, j, i) ==
  IF j < r.camera[1].image_height /\ r.camera[1].image_width > 0
  THEN [r EXCEPT !.pc = "sampling", !.j = j, !.i = i, !.strata_j = 0, !.strata_i = 0,
                 !.px_color = Color_black, !.rays = 0]
  ELSE [r EXCEPT !.pc = "write"]

\* a panic unwinds render: its locals (the buffer, the pixel sum) are dropped
Unwound(r) ==
  [r EXCEPT !.pc = "panicked", !.buf = <<>>, !.px_color = Color_black, !.rays = 0,
            !.i = 0, !.j = 0, !.strata_i = 0, !.strata_j = 0]

\* write_header(..).unwrap(), the buffer allocation and the entry of the
\* loops; a writer that fails makes unwrap panic
RenderBegin ==
  \E ok \in BOOLEAN :
    LET called == [render EXCEPT !.header_calls = @ + 1,
                                 !.header = <<render.camera[1].image_width,
                                              render.camera[1].image_height>>]
    IN  /\ render.pc = "built"
        /\ render' = IF ok THEN AtPixel(called, 0, 0)
                     ELSE Unwound(called)
        /\ UNCHANGED nonRenderVars

\* one iteration of the strata loops: px_color += ray_color(get_ray(..))
RenderSample ==
  \E c \in SampleColors :
    LET cam == render.camera[1]
        last_i == render.strata_i + 1 = cam.sqrt_spp
    IN  /\ render.pc = "sampling"
        /\ render.strata_j < cam.sqrt_spp
        /\ render' = [render EXCEPT
                        !.px_color = Color_add(@, c),
                        !.rays = @ + 1,
                        !.traced = @ + 1,
                        !.strata_i = IF last_i THEN 0 ELSE @ + 1,
                        !.strata_j = IF last_i THEN @ + 1 ELSE @]
        /\ UNCHANGED nonRenderVars

\* the same iteration when ray_color panics (a material's scatter aborts)
RenderSamplePanics ==
  /\ render.pc = "sampling"
  /\ render.strata_j < render.camera[1].sqrt_spp
  /\ render' = Unwound([render EXCEPT !.traced = @ + 1])
  /\ UNCHANGED nonRenderVars

\* the strata loops are over: set_brightness, push, next pixel
RenderPixel ==
  LET cam == render.camera[1]
      px == [color |-> Color_set_brightness(render.px_color, cam.px_sample_scale),
             rays |-> render.rays, scale |-> cam.px_sample_scale,
             i |-> render.i, j |-> render.j]
      pushed == [render EXCEPT !.buf = Append(@, px)]
  IN  /\ render.pc = "sampling"
      /\ render.strata_j = cam.sqrt_spp
      /\ render' = IF render.i + 1 < cam.image_width
                   THEN AtPixel(pushed, render.j, render.i + 1)
                   ELSE AtPixel(pushed, render.j + 1, 0)
      /\ UNCHANGED nonRenderVars

\* export_writer.write(&buf).unwrap()
RenderWrite ==
  \E ok \in BOOLEAN :
    /\ render.pc = "write"
    /\ render' = LET called == [render EXCEPT !.write_calls = @ + 1,
                                               !.written = <<render.buf>>]
                  IN  IF ok THEN [called EXCEPT !.pc = "done"] ELSE Unwound(called)
    /\ UNCHANGED nonRenderVars

NextRender ==
  \/ CameraReady
  \/ RenderBegin
  \/ RenderSample
  \/ RenderSamplePanics
  \/ RenderPixel
  \/ RenderWrite

(***************************************************************************)
(* Camera::ray_color: the recursion as a stack of calls.  world.hit and    *)
(* the random draws of the materials are choices the scene and the random  *)
(* generator make.                                                         *)
(***************************************************************************)
MaxDepth == 3

Backgrounds == {[kind |-> "Sky"], [kind |-> "Constant", col |-> <<ColorOne, 0, 0>>]}

Directions == {<<0, 1, 0>>, <<1, 0, 0>>}

Materials ==
  {Lambertian_solid(<<ColorOne, 0, ColorOne>>), Lambertian_solid(Color_black),
   Isotropic_colored(<<0, ColorOne, 0>>), DiffuseLight_solid(<<2 * ColorOne, ColorOne, 0>>),
   Metal_new(Color_black), Metal_with_fuzz(Color_white, 1), Dielectric_new(15)}

\* what world.hit(ray, (0.001, inf)) may return: None, or a record with a
\* material and a face
HitOutcomes ==
  {<<>>} \cup {<<[point |-> <<0, 0, 0>>, material |-> m, front_face |-> f]>> :
                 m \in Materials, f \in BOOLEAN}

\* the random draws of one scatter call
Randoms == [direction : Directions, below : BOOLEAN]

\* choices that lead to a different step of ray_color
Relevant(h, rnd) ==
  IF h = <<>> THEN rnd.direction = <<0, 1, 0>> /\ ~rnd.below
  ELSE /\ h[1].material.kind \notin {"DiffuseLight", "Dielectric"} => h[1].front_face
       /\ ~(h[1].material.kind = "Metal" /\ h[1].material.fuzz > 0) => ~rnd.below
       /\ h[1].material.kind \notin {"Lambertian", "Isotropic"} =>
            rnd.direction = <<0, 1, 0>>

Frame(ray, depth) ==
  [ray |-> ray, depth |-> depth, pc |-> "entry",
   emission_color |-> Color_black, attenuation |-> Color_black]

InitRayColor ==
  /\ rc_status = "idle"
  /\ rc_cfg = [background |-> [kind |-> "Sky"], depth |-> 0]
  /\ rc_stack = <<>>
  /\ rc_ret = <<>>
  /\ rc_log = <<>>
  /\ rc_queries = 0
  /\ rc_calls = 0

\* render (or a caller) calls ray_color(ray, depth, world)
RayColorCall ==
  \E bg \in Backgrounds, depth \in 0..MaxDepth, dir \in Directions :
    /\ rc_status = "idle"
    /\ rc_status' = "running"
    /\ rc_cfg' = [background |-> bg, depth |-> depth]
    /\ rc_stack' = <<Frame(Ray4_new(<<0, 0, 0>>, dir, 0), depth)>>
    /\ UNCHANGED <<rc_ret, rc_log, rc_queries, rc_calls>>
    /\ UNCHANGED nonRayColorVars

\* the innermost call returns col to its caller
Return(col) ==
  /\ rc_ret' = <<[level |-> Len(rc_stack), color |-> col]>>
  /\ rc_stack' = SubSeq(rc_stack, 1, Len(rc_stack) - 1)
  /\ rc_status' = IF Len(rc_stack) = 1 THEN "returned" ELSE rc_status

Top == rc_stack[Len(rc_stack)]

Logged(kind, hit, emission_color, attenuation) ==
  [kind |-> kind, ray |-> Top.ray, depth |-> Top.depth, hit |-> hit,
   emission_color |-> emission_color, attenuation |-> attenuation]

\* depth == 0: black, without a query
RayColorDepthZero ==
  /\ rc_status = "running"
  /\ Top.pc = "entry"
  /\ Top.depth = 0
  /\ Return(Color_black)
  /\ rc_log' = Append(rc_log, Logged("depth0", <<>>, Color_black, Color_black))
  /\ UNCHANGED <<rc_cfg, rc_queries, rc_calls>>
  /\ UNCHANGED nonRayColorVars

\* depth > 0: the query, emitted, scatter, and either a return, a panic of
\* scatter or the nested call
RayColorQuery ==
  \E h \in HitOutcomes, rnd \in Randoms :
    /\ Relevant(h, rnd)
    /\ rc_status = "running"
    /\ Top.pc = "entry"
    /\ Top.depth # 0
    /\ rc_queries' = rc_queries + 1
    /\ IF h = <<>>
       THEN /\ Return(Background_color(rc_cfg.background, Top.ray))
            /\ rc_log' = Append(rc_log, Logged("miss", <<>>, Color_black, Color_black))
            /\ UNCHANGED rc_calls
       ELSE LET hit == h[1]
                emission_color == Material_emitted(hit.material, hit)
                scatter == Material_scatter(hit.material, Top.ray, hit, rnd)
            IN  IF scatter = Panic
                THEN /\ rc_status' = "panicked"
                     /\ rc_stack' = <<>>
                     /\ rc_log' = Append(rc_log, Logged("abort", h, emission_color,
                                                        Color_black))
                     /\ UNCHANGED <<rc_ret, rc_calls>>
                ELSE IF scatter.value = <<>>
                THEN /\ Return(emission_color)
                     /\ rc_log' = Append(rc_log, Logged("noscatter", h, emission_color,
                                                        Color_black))
                     /\ UNCHANGED rc_calls
                ELSE /\ rc_stack' =
                          Append([rc_stack EXCEPT ![Len(rc_stack)] =
                                    [@ EXCEPT !.pc = "nested",
                                              !.emission_color = emission_color,
                                              !.attenuation = scatter.value[1].attenuation]],
                                 Frame(scatter.value[1].scattered, nested_depth(Top.depth)))
                     /\ rc_calls' = rc_calls + 1
                     /\ rc_log' = Append(rc_log, Logged("scatter", h, emission_color,
                                                        scatter.value[1].attenuation))
                     /\ UNCHANGED <<rc_status, rc_ret>>
    /\ UNCHANGED rc_cfg
    /\ UNCHANGED nonRayColorVars

\* the nested call has returned: emission + attenuation * its value
RayColorResume ==
  /\ rc_status = "running"
  /\ Top.pc = "nested"
  /\ rc_ret # <<>>
  /\ Return(Color_add(Top.emission_color, Color_mul(Top.attenuation, rc_ret[1].color)))
  /\ UNCHANGED <<rc_cfg, rc_log, rc_queries, rc_calls>>
  /\ UNCHANGED nonRayColorVars

NextRayColor ==
  \/ RayColorCall
  \/ RayColorDepthZero
  \/ RayColorQuery
  \/ RayColorResume

(***************************************************************************)
(* main: the scene is filled and wrapped in a BVH, then render traces rays *)
(* against it.  render takes world: &impl Hittable, and hit, scatter and   *)
(* emitted take &self; no type of the scene has interior mutability.       *)
(***************************************************************************)
MaxPixels == 2

\* the materials the primitives of the scene refer to
SceneMaterials ==
  [m1 |-> Lambertian_solid(<<ColorOne, 0, ColorOne>>),
   m2 |-> DiffuseLight_solid(<<2 * ColorOne, ColorOne, 0>>),
   m3 |-> Metal_with_fuzz(Color_white, 1)]

FrameBackground == [kind |-> "Constant", col |-> <<0, 0, ColorOne>>]

\* a faulty variant of after_hit: the callee takes the stored bounding box
after_hit_taking_box(self) == [self EXCEPT !.bounding_box = <<>>]

\* the receiver of hit(&self, ..) once the call has returned
after_hit(self) == self

\* world = [bvh_world].into_iter().collect(): what render receives
Rendered(tree) == HittableVec_add(HittableVec_new, tree)

\* ray_color(ray, 1, world) of a camera with max_depth 1: the nested call is
\* at depth 0 and returns black
FrameRayColor(scene, materials, ray, rnd) ==
  LET scattered(emission_color, scatter) ==
        IF scatter = Panic THEN Panic
        ELSE IF scatter.value = <<>> THEN Returned(emission_color)
        ELSE Returned(Color_add(emission_color,
                                Color_mul(scatter.value[1].attenuation, Color_black)))
      shade(h) ==
        IF h = <<>> THEN Returned(Background_color(FrameBackground, ray))
        ELSE CHOOSE r \in
               {scattered(emission_color, scatter) :
                  emission_color \in {Material_emitted(materials[h[1].material], h[1])},
                  scatter \in {Material_scatter(materials[h[1].material], ray, h[1],
                                                rnd)}} :
               TRUE
  \* the scene is queried once: the record is bound as a value
  IN  CHOOSE r \in {shade(h) :
                      h \in {Hittable_hit(scene, ray, Interval_new(T_MIN, PInf))}} :
        TRUE

InitFrame ==
  frame = [pc |-> "scene", received |-> <<>>, materials |-> SceneMaterials,
           pixels |-> <<>>, hits |-> 0, writer |-> "Waiting"]

\* main fills the list and builds the BVH before it renders
FrameScene ==
  /\ frame.pc = "scene"
  /\ \/ SceneAdd
     \/ SceneAddTranslated
     \/ SceneAddRotated
     \/ SceneBuildBVH

\* cam.render(&world): write_header, with the scene as main built it
FrameRenderBegin ==
  /\ frame.pc = "scene"
  /\ bvh # <<>>
  /\ bvh[1].from = world.objects
  /\ bvh[1].tree.kind = "BVHNode"
  /\ frame' = [frame EXCEPT !.pc = "rendering",
                            !.received = <<[world |-> world, bvh |-> bvh,
                                            materials |-> frame.materials]>>,
                            !.writer = "Ready"]
  /\ UNCHANGED sceneVars
  /\ UNCHANGED nonFrameVars

\* one ray of one pixel: a hit query on the scene, emitted and scatter on the
\* material that was hit; a panic of scatter ends render
FrameTrace ==
  /\ frame.pc = "rendering"
  /\ Len(frame.pixels) < MaxPixels
  /\ \E ray \in Rays, rnd \in Randoms :
       /\ rnd.direction = <<0, 1, 0>>
       /\ \E color \in {FrameRayColor(Rendered(bvh[1].tree), frame.materials, ray, rnd)},
             h \in {Hittable_hit(Rendered(bvh[1].tree), ray, Interval_new(T_MIN, PInf))} :
            frame' = IF color = Panic
                     THEN [frame EXCEPT !.pc = "panicked", !.pixels = <<>>]
                     ELSE [frame EXCEPT !.pixels = Append(@, color.value),
                                        !.hits = @ + (IF h = <<>> THEN 0 ELSE 1)]
  /\ world' = after_hit(world)
  /\ bvh' = <<[from |-> bvh[1].from, tree |-> after_hit(bvh[1].tree)]>>
  /\ UNCHANGED <<query, last>>
  /\ UNCHANGED nonFrameVars

\* writer.write(&buf) after the last pixel
FrameWrite ==
  /\ frame.pc = "rendering"
  /\ Len(frame.pixels) = MaxPixels
  /\ frame' = [frame EXCEPT !.pc = "done", !.writer = "Written"]
  /\ UNCHANGED sceneVars
  /\ UNCHANGED nonFrameVars

NextFrame ==
  \/ FrameScene
  \/ FrameRenderBegin
  \/ FrameTrace
  \/ FrameWrite

\* a behaviour applies one pure function once, to inputs drawn from the sets
\* below
InitCall == applied = <<>>

Called_fn(fn, args, result) == <<[fn |-> fn, args |-> args, result |-> result]>>

(***************************************************************************)
(* Sphere::hit on stationary and moving spheres, radius 0 included         *)
(* (Sphere::new asserts radius >= 0.0)                                     *)
(***************************************************************************)
SphereCenters == {Ray3_new(<<0, 0, 0>>, <<0, 0, 0>>), Ray3_new(<<0, 0, 0>>, <<0, 0, 2>>)}
SphereRadii == {0, 3, MaxRadius}
Spheres == {Sphere_new(c, r, "m1") : c \in SphereCenters, r \in SphereRadii}
SphereRays ==
  {Ray4_new(<<x, 0, z>>, d, time) :
     x \in {0, 3, 4, 5, 6}, z \in {-10, 0, 10},
     d \in {<<0, 0, 1>>, <<0, 0, -1>>, <<0, 0, 2>>, <<1, 0, 0>>}, time \in {0, 1}}
SphereIntervals == {Interval_new(s, e) : s \in {0, 5, 6}, e \in {10, 14, 15, PInf}}

SphereHit ==
  /\ applied = <<>>
  /\ \E self \in Spheres, ray \in SphereRays, ray_t \in SphereIntervals :
       /\ ExactSphereCase(self, ray)
       /\ applied' = Called_fn("Sphere::hit", [self |-> self, ray |-> ray, ray_t |-> ray_t],
                            Sphere_hit(self, ray, ray_t))
  /\ UNCHANGED nonCallVars

NextSphere == SphereHit

(***************************************************************************)
(* hit on the surface primitives, bare and wrapped in Translate / RotateY  *)
(***************************************************************************)
FacePrimitives ==
  {Sphere_new(Ray3_new(<<0, 0, 0>>, <<0, 0, 0>>), MaxRadius, "m1"),
   Sphere_new(Ray3_new(<<0, 0, 0>>, <<0, 0, 2>>), MaxRadius, "m1"),
   Quad(<<0, 0, 0>>, "m1"),
   Triangle_new(<<0, 0, 0>>, <<2, 0, 0>>, <<0, 2, 0>>, "m2"),
   Disc_new(<<-2, -2, 0>>, <<4, 0, 0>>, <<0, 4, 0>>, "m3")}

FaceOffsets == {<<0, 0, 2>>, <<0, 4, 0>>}

FaceObjects ==
  FacePrimitives
    \cup {Translate_new(p, o) : p \in FacePrimitives, o \in FaceOffsets}
    \cup {RotateY_new(p, q) : p \in FacePrimitives, q \in 1..3}
    \cup {RotateY_new(Translate_new(p, o), q) :
            p \in FacePrimitives, o \in FaceOffsets, q \in 1..3}
    \cup {Translate_new(RotateY_new(p, q), o) :
            p \in FacePrimitives, o \in FaceOffsets, q \in 1..3}

FaceRays ==
  {Ray4_new(o, d, time) :
     o \in {<<x, y, z>> : x \in {0, 1, 3, MaxRadius}, y \in {0, 4}, z \in {-10, 10}}
             \cup {<<x, y, z>> : x \in {-10, 10}, y \in {0, 4}, z \in {0, 1, 3, MaxRadius}},
     d \in {<<0, 0, 1>>, <<0, 0, -1>>, <<1, 0, 0>>, <<-1, 0, 0>>},
     time \in {0, 1}}

\* the sphere, if any, is met with an exact square root and division
RECURSIVE FaceExact(_, _)
FaceExact(obj, ray) ==
  CASE obj.kind = "Sphere" -> ExactSphereCase(obj, ray)
    [] obj.kind = "Translate" -> FaceExact(obj.object, Translate_offset_ray(obj, ray))
    [] obj.kind = "RotateY" -> FaceExact(obj.object, RotateY_rotated_ray(obj, ray))
    [] OTHER -> TRUE

FaceHit ==
  /\ applied = <<>>
  /\ \E obj \in FaceObjects, ray \in FaceRays, ray_t \in {Interval_new(0, PInf)} :
       /\ FaceExact(obj, ray)
       /\ applied' = Called_fn("Hittable::hit", [self |-> obj, ray |-> ray, ray_t |-> ray_t],
                               Hittable_hit(obj, ray, ray_t))
  /\ UNCHANGED nonCallVars

NextFace == FaceHit

(***************************************************************************)
(* The three is_interior tests on the same planar coordinates, in tenths   *)
(***************************************************************************)
MaxPlanar == 12

PlanarCoords == {[num |-> n, den |-> 10] : n \in (-2..MaxPlanar) \cup {NaN, PInf, NInf}}

InteriorTests ==
  /\ applied = <<>>
  /\ \E a \in PlanarCoords, b \in PlanarCoords :
       applied' = Called_fn("is_interior", [a |-> a, b |-> b],
                            [Parallelogram |-> Parallelogram_is_interior(a, b),
                             Triangle |-> Triangle_is_interior(a, b),
                             Disc |-> Disc_is_interior(a, b)])
  /\ UNCHANGED nonCallVars

NextInterior == InteriorTests

(***************************************************************************)
(* Material::scatter of every material on a hit record                     *)
(***************************************************************************)
ScatterRecords ==
  {[point |-> p, normal |-> <<0, 0, -1>>, t |-> 10, front_face |-> f] :
     p \in {<<0, 0, 0>>, <<1, 1, 0>>}, f \in BOOLEAN}

ScatterCall ==
  /\ applied = <<>>
  /\ \E mat \in Materials, record \in ScatterRecords, rnd \in Randoms, time \in {0, 1} :
       LET ray_in == Ray4_new(<<0, 0, -10>>, <<0, 0, 1>>, time)
       IN  applied' = Called_fn("Material::scatter",
                                [self |-> mat, ray_in |-> ray_in, record |-> record,
                                 rnd |-> rnd],
                                Material_scatter(mat, ray_in, record, rnd))
  /\ UNCHANGED nonCallVars

NextScatter == ScatterCall

(***************************************************************************)
(* Interval::new, Interval::positive and Interval::overlap on every f64 of *)
(* the model; each call is recorded with the call on the swapped arguments *)
(***************************************************************************)
Floats == (-MaxCoord..MaxCoord) \cup {PInf, NInf, NaN}

Intervals == {Interval_new(start, end) : start \in Floats, end \in Floats}

IntervalNew ==
  /\ applied = <<>>
  /\ \E a \in Floats, b \in Floats :
       applied' = Called_fn("Interval::new", [a |-> a, b |-> b],
                            [ab |-> Interval_new(a, b), ba |-> Interval_new(b, a)])
  /\ UNCHANGED nonCallVars

IntervalPositive ==
  /\ applied = <<>>
  /\ \E a \in Floats, b \in Floats :
       applied' = Called_fn("Interval::positive", [a |-> a, b |-> b],
                            [ab |-> Interval_positive(a, b),
                             ba |-> Interval_positive(b, a)])
  /\ UNCHANGED nonCallVars

IntervalOverlap ==
  /\ applied = <<>>
  /\ \E a \in Intervals, b \in Intervals :
       applied' = Called_fn("Interval::overlap", [a |-> a, b |-> b],
                            [ab |-> overlap(a, b), ba |-> overlap(b, a)])
  /\ UNCHANGED nonCallVars

NextInterval ==
  \/ IntervalNew
  \/ IntervalPositive
  \/ IntervalOverlap

(***************************************************************************)
(* Color::hex on every 3-digit value and on 6-digit values built from the  *)
(* bytes below                                                             *)
(***************************************************************************)
HexBytes == {0, 1, 15, 16, 128, 255}

HexInputs ==
  (0..HEX3_MAX) \cup {r * 65536 + g * 256 + b : r \in HexBytes, g \in HexBytes, b \in HexBytes}

ColorHex ==
  /\ applied = <<>>
  /\ \E color \in HexInputs :
       applied' = Called_fn("Color::hex", [color |-> color], Color_hex(color))
  /\ UNCHANGED nonCallVars

NextHex == ColorHex

(***************************************************************************)
(* Sphere::get_uv on points inside, on and outside the unit sphere         *)
(***************************************************************************)
Coords == {Coord(k, FALSE) : k \in -2..2} \cup {Coord(0, TRUE)}

GetUv ==
  /\ applied = <<>>
  /\ \E x \in Coords, y \in Coords, z \in Coords :
       applied' = Called_fn("Sphere::get_uv", [point |-> <<x, y, z>>],
                            Sphere_get_uv(<<x, y, z>>))
  /\ UNCHANGED nonCallVars

NextUv == GetUv

(***************************************************************************)
(* ConfigModel: from_table on the objects array of a configuration, then   *)
(* as_world on the model it returned                                       *)
(***************************************************************************)
MaxEntries == 2

\* the names of the materials table of the configuration
MaterialStorage == {"m1"}

\* one [[objects]] table: its type string upper-cased, its material string
\* and, for a sphere, its radius
ObjectTypes == {"SPHERE", "PARALLELOGRAM", "DISC", "TRIANGLE"}
ObjectTables == [type : ObjectTypes, material : {"m1", "m9"}, radius : {-2, 2}]
ObjectArrays == UNION {[1..n -> ObjectTables] : n \in 0..MaxEntries}

Ok(value) == [kind |-> "ok", value |-> value]
Err == [kind |-> "err"]

parse_material(a, storage) == IF a \notin storage THEN Err ELSE Ok(a)

ObjectModel_parse(table, materials) ==
  IF table.type \notin {"SPHERE", "PARALLELOGRAM", "DISC"} THEN Err
  ELSE IF parse_material(table.material, materials) = Err THEN Err
  ELSE CASE table.type = "SPHERE" ->
              Ok([model |-> "Sphere", center |-> <<0, 0, 0>>, radius |-> table.radius,
                  material |-> table.material])
         [] table.type = "PARALLELOGRAM" ->
              Ok([model |-> "Parallelogram", corner |-> <<0, 0, 0>>,
                  vectors |-> <<(<<2, 0, 0>>), (<<0, 2, 0>>)>>,
                  material |-> table.material])
         [] table.type = "DISC" ->
              Ok([model |-> "Disc", center |-> <<0, 0, 0>>,
                  vectors |-> <<(<<2, 0, 0>>), (<<0, 2, 0>>)>>,
                  material |-> table.material])

\* the objects loop of from_table: the first table that fails to parse ends
\* the call with its error
ConfigModel_from_table(objects) ==
  IF \E i \in 1..Len(objects) : ObjectModel_parse(objects[i], MaterialStorage) = Err
  THEN Err
  ELSE Ok([materials |-> MaterialStorage,
           objects |-> [i \in 1..Len(objects) |->
                          ObjectModel_parse(objects[i], MaterialStorage).value]])

Sphere_stationary(center, radius, material) ==
  Sphere_new(Ray3_new(center, <<0, 0, 0>>), radius, material)

\* the Triangle and Disc arms are todo!()
ObjectModel_as_hittable(self, material_storage) ==
  CASE self.model = "Sphere" ->
         IF self.material \notin material_storage THEN Panic
         ELSE Sphere_stationary(self.center, self.radius, self.material)
    [] self.model = "Parallelogram" ->
         IF self.material \notin material_storage THEN Panic
         ELSE Parallelogram_new(self.corner, self.vectors[1], self.vectors[2], self.material)
    [] OTHER -> Panic

RECURSIVE as_world_from(_, _, _)
as_world_from(list, objects, materials) ==
  IF objects = <<>> THEN Returned(list)
  ELSE LET obj == ObjectModel_as_hittable(Head(objects), materials)
       IN  IF obj = Panic THEN Panic
           ELSE LET added == HittableVec_add(list, obj)
                IN  IF added = Panic THEN Panic
                    ELSE as_world_from(added, Tail(objects), materials)

ConfigModel_as_world(self) == as_world_from(HittableVec_new, self.objects, self.materials)

FromTable ==
  /\ applied = <<>>
  /\ \E objects \in ObjectArrays :
       applied' = Called_fn("ConfigModel::from_table", [objects |-> objects],
                            ConfigModel_from_table(objects))
  /\ UNCHANGED nonCallVars

AsWorld ==
  /\ applied # <<>>
  /\ applied[1].fn = "ConfigModel::from_table"
  /\ applied[1].result # Err
  /\ applied' = Called_fn("ConfigModel::as_world", [self |-> applied[1].result.value],
                          ConfigModel_as_world(applied[1].result.value))
  /\ UNCHANGED nonCallVars

NextConfig == FromTable \/ AsWorld

(***************************************************************************)
(* BVHNode::new on vectors put together by the caller                      *)
(***************************************************************************)
MaxLeaves == 5

\* quads apart on x and on z, and a list that is still empty and so reports
\* no bounding box
BvhPrimitives ==
  {Quad(<<0, 0, 0>>, "m1"), Quad(<<6, 0, 0>>, "m2"), Quad(<<0, 0, 8>>, "m3"), HittableVec_new}

BvhLists == UNION {[1..n -> BvhPrimitives] : n \in 0..MaxLeaves}

BvhNew ==
  /\ applied = <<>>
  /\ \E objects \in BvhLists :
       \E tree \in BVHNode_new(objects) :
         applied' = Called_fn("BVHNode::new", [objects |-> objects], tree)
  /\ UNCHANGED nonCallVars

NextBvh == BvhNew

(***************************************************************************)
(* ConstantMedium (hittable.rs).  random() is drawn from [0, 1), so        *)
(* f64::ln(random()) is negative or -inf; a call that reaches the draw     *)
(* takes the head of the sequence of the logarithms still to be drawn.     *)
(***************************************************************************)
\* the 0.0001 past the entry point at which the exit is looked for
EXIT_STEP == 2

\* inv_density is -1.0 / density; the density is not checked
ConstantMedium_colored(boundary, density, color) ==
  [kind |-> "ConstantMedium",
   boundary |-> boundary,
   inv_density |-> FNeg(FRecip(density)),
   phase_fn |-> Isotropic_colored(color),
   bounding_box |-> bounding_box(boundary)[1]]

\* origin + direction * t on f64s
Ray4_at(ray, t) ==
  <<FAdd(ray.origin[1], FMul(ray.direction[1], t)),
    FAdd(ray.origin[2], FMul(ray.direction[2], t)),
    FAdd(ray.origin[3], FMul(ray.direction[3], t))>>

\* [hit, draws]: the Option returned and the logarithms left
ConstantMedium_hit(self, ray, ray_t, draws) ==
  LET none == [hit |-> <<>>, draws |-> draws]
      \* the sample, the ray being inside the boundary from t1 to t2
      sample(t1, t2) ==
        IF FLe(t2, t1) THEN none
        ELSE
          LET rec1_t   == IF FLt(t1, 0) THEN 0 ELSE t1
              ray_len  == len(ray.direction)
              dist_inside_boundary == FMul(FSub(t2, rec1_t), ray_len)
              hit_dist == FMul(self.inv_density, Head(draws))
              t        == FAdd(rec1_t, FDiv(hit_dist, ray_len))
          IN  IF FLt(dist_inside_boundary, hit_dist)
              THEN [hit |-> <<>>, draws |-> Tail(draws)]
              ELSE [hit |-> <<[point |-> Ray4_at(ray, t),
                               normal |-> <<1, 0, 0>>,
                               t |-> t, u |-> NaN, v |-> NaN,
                               front_face |-> TRUE,
                               material |-> self.phase_fn]>>,
                    draws |-> Tail(draws)]
      leaving(rec1, rec2) ==
        IF rec2 = <<>> THEN none
        ELSE sample(IF FLt(rec1[1].t, ray_t.start) THEN ray_t.start ELSE rec1[1].t,
                    IF FLt(ray_t.end, rec2[1].t) THEN ray_t.end ELSE rec2[1].t)
      entering(rec1) ==
        IF rec1 = <<>> THEN none
        ELSE CHOOSE r \in
               {leaving(rec1, rec2) :
                  rec2 \in {Hittable_hit(self.boundary, ray,
                                         Interval_new(FAdd(rec1[1].t, EXIT_STEP), PInf))}} :
               TRUE
  \* each query of the boundary is made once: its result is bound as a value
  IN  CHOOSE r \in {entering(rec1) :
                      rec1 \in {Hittable_hit(self.boundary, ray, Interval_universe)}} :
        TRUE

\* Hittable::hit on an object that may be, or hold as the child of a BVH
\* node, a ConstantMedium
RECURSIVE hit_drawing(_, _, _, _)
hit_drawing(obj, ray, ray_t, draws) ==
  CASE obj.kind = "ConstantMedium" -> ConstantMedium_hit(obj, ray, ray_t, draws)
    [] obj.kind = "BVHNode" ->
         IF ~BoundingBox3_hit(obj.bbox, ray, ray_t) THEN [hit |-> <<>>, draws |-> draws]
         ELSE \* each child is queried once: its result is bound as a value
              LET after_right(hit_left, hit_right) ==
                    IF hit_right.hit # <<>> THEN hit_right
                    ELSE [hit |-> hit_left.hit, draws |-> hit_right.draws]
                  after_left(hit_left) ==
                    LET closest == IF hit_left.hit # <<>>
                                   THEN Interval_new(ray_t.start, hit_left.hit[1].t)
                                   ELSE ray_t
                    IN  CHOOSE r \in {after_right(hit_left, hit_right) :
                                        hit_right \in {hit_drawing(obj.right, ray, closest,
                                                                   hit_left.draws)}} : TRUE
              IN  CHOOSE r \in {after_left(hit_left) :
                                  hit_left \in {hit_drawing(obj.left, ray, ray_t, draws)}} :
                    TRUE
    [] OTHER -> [hit |-> Hittable_hit(obj, ray, ray_t), draws |-> draws]

(***************************************************************************)
(* One hit query on a primitive of each kind, and on the BVH node built    *)
(* from that primitive alone                                               *)
(***************************************************************************)
ProbeSphere == Sphere_new(Ray3_new(<<1, 1, 0>>, <<0, 0, 0>>), 3, "m1")

Densities == {1, -1, 0}

ProbePrimitives ==
  {Quad(<<0, 0, 0>>, "m1"),
   Triangle_new(<<0, 0, 0>>, <<2, 0, 0>>, <<0, 2, 0>>, "m2"),
   Disc_new(<<0, 0, 0>>, <<2, 0, 0>>, <<0, 2, 0>>, "m3"),
   ProbeSphere,
   Translate_new(Quad(<<0, 0, 0>>, "m1"), <<0, 0, 2>>),
   RotateY_new(Quad(<<0, 0, 0>>, "m1"), 1),
   HittableVec_add(HittableVec_add(HittableVec_new, Quad(<<0, 0, 0>>, "m1")),
                   Quad(<<0, 0, 0>>, "m2"))}
    \cup {ConstantMedium_colored(ProbeSphere, d, Color_white) : d \in Densities}

ProbeRays ==
  {Ray4_new(o, d, 0) :
     o \in {<<1, 1, -25>>, <<1, 1, 0>>, <<0, 0, -25>>, <<1, 1, 25>>, <<-25, 25, 25>>},
     d \in {<<0, 0, 1>>, <<0, 0, -1>>, <<1, -1, -1>>}}

\* query intervals, start <= end
ProbeIntervals ==
  {Interval_new(T_MIN, PInf), Interval_new(T_MIN, 25), Interval_new(0, PInf),
   Interval_universe, Interval_new(23, 26), Interval_new(-30, -20)}

\* ln(random()) for the draws a query may make
LnRandom == {NInf, -4, -2, -1}

MaxDraws == 2

ProbeDraws == [1..MaxDraws -> LnRandom]

\* the sphere, if any, is met with an exact square root and division, and a
\* medium by a ray along an axis
RECURSIVE ProbeExact(_, _)
ProbeExact(obj, ray) ==
  CASE obj.kind = "ConstantMedium" ->
         ProbeExact(obj.boundary, ray) /\ dot(ray.direction, ray.direction) = 1
    [] obj.kind = "BVHNode" -> ProbeExact(obj.left, ray) /\ ProbeExact(obj.right, ray)
    [] OTHER -> FaceExact(obj, ray)

ProbePrimitive ==
  /\ applied = <<>>
  /\ \E p \in ProbePrimitives, ray \in ProbeRays, ray_t \in ProbeIntervals,
        draws \in ProbeDraws :
       /\ ProbeExact(p, ray)
       /\ applied' = Called_fn("Hittable::hit",
                               [self |-> p, ray |-> ray, ray_t |-> ray_t, draws |-> draws],
                               hit_drawing(p, ray, ray_t, draws).hit)
  /\ UNCHANGED nonCallVars

\* BVHNode::new(vec![p]).hit(ray, ray_t)
ProbeNode ==
  /\ applied = <<>>
  /\ \E p \in ProbePrimitives, ray \in ProbeRays, ray_t \in ProbeIntervals,
        draws \in ProbeDraws :
       \E node \in BVHNode_new(<<p>>) :
         /\ ProbeExact(p, ray)
         /\ applied' = Called_fn("BVHNode::hit",
                                 [self |-> node, ray |-> ray, ray_t |-> ray_t,
                                  draws |-> draws],
                                 hit_drawing(node, ray, ray_t, draws).hit)
  /\ UNCHANGED nonCallVars

NextProbe == ProbePrimitive \/ ProbeNode

(***************************************************************************)
(* BoundingBox3::longest_axis on the boxes of the public constructors      *)
(***************************************************************************)
MaxExtent == 3

AxisCorners == {<<x, y, z>> : x \in 0..MaxExtent, y \in 0..MaxExtent, z \in 0..MaxExtent}

AxisBoxes ==
  {BoundingBox3_empty, BoundingBox3_universe}
    \cup {bounded_by(a, b) : a \in AxisCorners, b \in AxisCorners}

LongestAxis ==
  /\ applied = <<>>
  /\ \E self \in AxisBoxes :
       applied' = Called_fn("BoundingBox3::longest_axis", [self |-> self], longest_axis(self))
  /\ UNCHANGED nonCallVars

NextAxis == LongestAxis

(***************************************************************************)
(* PngWriter (export.rs): Waiting(Option<output>) or Ready(png::Writer).   *)
(* The calls come from a client in any order, or from Camera::render in    *)
(* its order; a panic ends the sequence.  Whether the png encoder succeeds *)
(* is the choice of the output it writes to.                               *)
(***************************************************************************)
MaxWriterCalls == 5

PngWriter_new(output) == [state |-> "Waiting", output |-> <<output>>]

\* [self, outcome]: std::mem::take(w) leaves Waiting(None) behind before
\* unwrap and before the encoder runs
PngWriter_write_header(self, width, height, encoder_ok) ==
  IF self.state = "Waiting"
  THEN LET taken == self.output
           left  == [state |-> "Waiting", output |-> <<>>]
       IN  IF taken = <<>> THEN [self |-> left, outcome |-> "panic"]
           ELSE IF ~encoder_ok THEN [self |-> left, outcome |-> "err"]
           ELSE [self |-> [state |-> "Ready", output |-> taken, header |-> <<width, height>>],
                 outcome |-> "ok"]
  ELSE [self |-> self, outcome |-> "panic"]

PngWriter_write(self, colors, encoder_ok) ==
  IF self.state = "Ready"
  THEN [self |-> self, outcome |-> IF encoder_ok THEN "ok" ELSE "err"]
  ELSE [self |-> self, outcome |-> "panic"]

PngCall(op, before, made) ==
  [op |-> op, before |-> before, after |-> made.self, outcome |-> made.outcome]

\* PngWriter::new(&mut file), kept by a client or handed to a camera
PngNew ==
  /\ applied = <<>>
  /\ \E by \in {"client", "render"} :
       applied' = <<[fn |-> "PngWriter", by |-> by, writer |-> PngWriter_new("file"),
                     log |-> <<>>, status |-> "running"]>>
  /\ UNCHANGED nonCallVars

PngRunning(by) ==
  /\ applied # <<>>
  /\ applied[1].fn = "PngWriter"
  /\ applied[1].by = by
  /\ applied[1].status = "running"
  /\ Len(applied[1].log) < MaxWriterCalls

PngAfter(op, made, unwrapped) ==
  applied' = <<[applied[1] EXCEPT
                  !.writer = made.self,
                  !.log = Append(@, PngCall(op, applied[1].writer, made)),
                  !.status = IF made.outcome = "panic" THEN "aborted"
                             ELSE IF unwrapped /\ made.outcome = "err" THEN "panicked"
                             ELSE @]>>

ClientWriteHeader ==
  /\ PngRunning("client")
  /\ \E d \in ImageDims, encoder_ok \in BOOLEAN :
       PngAfter("write_header",
                PngWriter_write_header(applied[1].writer, d[1], d[2], encoder_ok), FALSE)
  /\ UNCHANGED nonCallVars

ClientWrite ==
  /\ PngRunning("client")
  /\ \E encoder_ok \in BOOLEAN :
       PngAfter("write", PngWriter_write(applied[1].writer, <<>>, encoder_ok), FALSE)
  /\ UNCHANGED nonCallVars

\* render: export_writer.write_header(width, height).unwrap()
RenderWriteHeader ==
  /\ PngRunning("render")
  /\ Len(applied[1].log) = 0
  /\ \E d \in ImageDims, encoder_ok \in BOOLEAN :
       PngAfter("write_header",
                PngWriter_write_header(applied[1].writer, d[1], d[2], encoder_ok), TRUE)
  /\ UNCHANGED nonCallVars

\* render: export_writer.write(&buf).unwrap(), after the pixel loops
RenderWriteBuf ==
  /\ PngRunning("render")
  /\ Len(applied[1].log) = 1
  /\ \E encoder_ok \in BOOLEAN :
       PngAfter("write", PngWriter_write(applied[1].writer, <<>>, encoder_ok), TRUE)
  /\ UNCHANGED nonCallVars

\* render has returned: the camera, and the writer in it, are not used again
RenderReturns ==
  /\ PngRunning("render")
  /\ Len(applied[1].log) = 2
  /\ applied' = <<[applied[1] EXCEPT !.status = "done"]>>
  /\ UNCHANGED nonCallVars

NextPng ==
  \/ PngNew
  \/ ClientWriteHeader
  \/ ClientWrite
  \/ RenderWriteHeader
  \/ RenderWriteBuf
  \/ RenderReturns

Init == InitBoxes /\ InitScene /\ InitBuilder /\ InitRender /\ InitRayColor /\ InitFrame
        /\ InitCall

SpecBox == Init /\ [][NextBox]_vars

SpecScene == Init /\ [][NextScene]_vars

SpecBuilder == Init /\ [][NextBuilder]_vars

SpecRender == Init /\ [][NextRender]_vars

\* render runs to its end once called: nothing suspends its loops
SpecRenderFair == SpecRender /\ WF_vars(NextRender)

SpecRayColor == Init /\ [][NextRayColor]_vars

\* a call that can take a step takes it: nothing suspends ray_color
SpecRayColorFair == SpecRayColor /\ WF_vars(NextRayColor)

SpecFrame == Init /\ [][NextFrame]_vars

SpecSphere == Init /\ [][NextSphere]_vars

SpecFace == Init /\ [][NextFace]_vars

SpecInterior == Init /\ [][NextInterior]_vars

SpecScatter == Init /\ [][NextScatter]_vars

SpecInterval == Init /\ [][NextInterval]_vars

SpecHex == Init /\ [][NextHex]_vars

SpecUv == Init /\ [][NextUv]_vars

SpecConfig == Init /\ [][NextConfig]_vars

SpecBvh == Init /\ [][NextBvh]_vars

SpecProbe == Init /\ [][NextProbe]_vars

SpecAxis == Init /\ [][NextAxis]_vars

SpecPng == Init /\ [][NextPng]_vars

(***************************************************************************)
(* Claims about BoundingBox3, checked under SpecBox                        *)
(***************************************************************************)

\* C3: extending is commutative and associative and has the empty box as its
\* identity, for all boxes obtainable from the public constructors (the
\* registers hold exactly those), the empty box included.
C3_ExtendingIsCommutativeMonoid ==
  \A a \in Regs, b \in Regs, c \in Regs :
    /\ extending(boxes[a], boxes[b]) = extending(boxes[b], boxes[a])
    /\ extending(extending(boxes[a], boxes[b]), boxes[c])
         = extending(boxes[a], extending(boxes[b], boxes[c]))
    /\ extending(BoundingBox3_empty, boxes[a]) = boxes[a]

C1_BVHAgreesWithLinearScan ==
  query # <<>> =>
    /\ (query[1].vec = <<>>) <=> (query[1].bvh = <<>>)
    /\ query[1].vec # <<>> /\ query[1].bvh # <<>> => query[1].vec[1].t = query[1].bvh[1].t

\* C2: HittableVec::hit gives the same outcome, the same t and the same
\* material for every insertion order of the same primitives, ties in t
\* included.
C2_HitOrderIndependent ==
  query # <<>> =>
    \A p \in IndexOrders(Len(world.objects)) :
      LET reordered == [world EXCEPT !.objects = [i \in 1..Len(world.objects) |->
                                                    world.objects[p[i]]]]
          h == HittableVec_hit(reordered, query[1].ray, query[1].ray_t)
      IN  /\ (h = <<>>) <=> (query[1].vec = <<>>)
          /\ h # <<>> => /\ h[1].t = query[1].vec[1].t
                         /\ h[1].material = query[1].vec[1].material

\* C5: a constructor that depends on bounds and is handed a primitive whose
\* bounding_box() is None aborts: Translate::new, RotateY::new,
\* HittableVec::add and BVHNode::new for every list length.
C5_NoBoxNeverAccepted ==
  last # <<>> /\ last[1].none_arg => last[1].outcome = "panic"

(***************************************************************************)
(* Claims about CameraBuilder, checked under SpecBuilder                   *)
(***************************************************************************)

\* the messages of the validation checks a call fails, in the order the
\* setter makes them
FailedChecks(call) ==
  LET a == call.args
      Failed(cond, text, found) ==
        IF cond THEN <<Message("CameraBuilder::" \o text, found)>> ELSE <<>>
  IN  CASE call.op = "dimensions" ->
             Failed(a[1] <= 1, "dimensions: Invalid width: must be greater than 1, found", a[1])
             \o Failed(a[2] <= 1, "dimensions: Invalid height: must be greater than 1, found", a[2])
        [] call.op = "with_aspect_ratio" ->
             Failed(a[1] <= 1, "with_aspect_ratio: Invalid width: must be greater than 1, found", a[1])
             \o Failed(a[2] < 1 \/ a[2] > 1000,
                       "with_aspect_ratio: Invalid aspect_ratio: must be between 0.1 and 100.0, found", a[2])
        [] call.op = "max_depth" ->
             Failed(a[1] < 1, "max_depth: Invalid depth: must be at least 1, found", a[1])
        [] call.op = "background" ->
             Failed(a[1].kind = "Constant" /\ ~Color_is_valid(a[1].col),
                    "background: Invalid color provided.",
                    IF a[1].kind = "Constant" THEN a[1].col ELSE <<>>)
        [] call.op = "antialias" ->
             Failed(a[1] < 1, "antialias: Invalid samples_per_px: must be at least 1, found", a[1])
        [] call.op = "focal_length" ->
             Failed(a[1] <= 0, "focal_length: Invalid length: must be greater than 0.0, found", a[1])
        [] call.op = "vfov" ->
             Failed(a[1] < 1 \/ a[1] >= 36000,
                    "vfov: Invalid deg: must be between 0.01 and 360.0, found", a[1])
        [] call.op = "defocus_angle" ->
             Failed(a[1] < 0 \/ a[1] >= 18000,
                    "defocus_angle: Invalid angle: must be between 0.0 and 180.0, found", a[1])
        [] OTHER -> <<>>

RECURSIVE FailedUpTo(_)
FailedUpTo(n) == IF n = 0 THEN <<>> ELSE FailedUpTo(n - 1) \o FailedChecks(calls[n])

WriterSet == \E i \in 1..Len(calls) : calls[i].op = "writer"

\* C6: CameraBuilder collects every validation failure.  While the builder is
\* configured its error list is, in call order, one message per check failed
\* by the calls made so far (so no later call shortens it); build() returns
\* Err exactly when some call failed a check or no writer was set, the Err
\* list being those messages followed by the missing-writer message, and it
\* returns Ok only when there is no message at all.
C6_BuilderCollectsEveryFailure ==
  LET failed == FailedUpTo(Len(calls))
      all == IF WriterSet THEN failed
             ELSE Append(failed, [MissingWriter EXCEPT !.text = "CameraBuilder::" \o @])
  IN  /\ builder.errors = failed
      /\ built # <<>> =>
           /\ (built[1].kind = "Err") <=> (failed # <<>> \/ ~WriterSet)
           /\ built[1].kind = "Err" => built[1].errors = all
           /\ built[1].kind = "Ok" => all = <<>> /\ built[1].camera # Panic

\* C6 witness: an invalid dimensions call, then a valid one, then a writer;
\* build() returned Err with the two messages of the first call.
C6_Witness ==
  /\ built # <<>>
  /\ built[1].kind = "Err"
  /\ Len(built[1].errors) = 2
  /\ Len(calls) = 3
  /\ calls[1] = Call("dimensions", <<1, 1>>)
  /\ calls[2] = Call("dimensions", <<2, 2>>)
  /\ calls[3].op = "writer"

\* C7: every Camera that build() returns Ok has image_width >= 1 and
\* image_height >= 1.
C7_OkCameraHasPositiveDimensions ==
  built # <<>> /\ built[1].kind = "Ok" =>
    /\ built[1].camera.image_width >= 1
    /\ built[1].camera.image_height >= 1

(***************************************************************************)
(* Claims about Camera::render, checked under SpecRender                   *)
(***************************************************************************)

C11_Order ==
  LET cam == render.camera[1]
      w == cam.image_width
      h == cam.image_height
  IN  /\ render.header_calls <= 1
      /\ render.write_calls <= 1
      /\ render.traced > 0 => render.header_calls = 1
      /\ render.header_calls = 1 => render.header = <<w, h>>
      /\ render.write_calls = 1 =>
           /\ render.header_calls = 1
           /\ render.traced = w * h * cam.sqrt_spp * cam.sqrt_spp
           /\ Len(render.written[1]) = w * h
           /\ \A i \in 0..(w - 1), j \in 0..(h - 1) :
                /\ render.written[1][j * w + i + 1].i = i
                /\ render.written[1][j * w + i + 1].j = j
      /\ render.pc = "done" => render.write_calls = 1
      /\ render.camera # <<>> =>
           /\ dot(cam.pxdelta_v_dir, <<0, 1, 0>>) < 0
           /\ dot(cam.pxdelta_u_dir, <<1, 0, 0>>) > 0

\* C11: one render call drives the image writer in a fixed order (C11_Order),
\* and a render that is called ends: the image is written, unless a writer
\* call fails or ray_color panics.
C11_RenderDrivesWriterInOrder ==
  /\ []C11_Order
  /\ (render.pc = "built") ~> (render.pc \in {"done", "panicked"})

\* C11 witness: a 3 x 2 image is written; the second row starts at index 3.
C11_Witness ==
  /\ render.pc = "done"
  /\ render.header = <<3, 2>>
  /\ render.header_calls = 1
  /\ render.write_calls = 1
  /\ Len(render.written[1]) = 6
  /\ render.written[1][4].i = 0
  /\ render.written[1][4].j = 1

SphereRoots(self, ray) ==
  {t \in (0 - 4 * MaxRadius)..(4 * MaxRadius) :
     LET p == VSub(at(ray, t), at(self.center, ray.time))
     IN  dot(p, p) = self.radius * self.radius}

StrictlyInside(ray_t, t) == ray_t.start < t /\ t < ray_t.end

\* the root the selection rule names: r1 if inside, else r2 if inside
SelectedRoot(self, ray, ray_t) ==
  LET roots == SphereRoots(self, ray)
  IN  IF roots = {} THEN <<>>
      ELSE LET r1 == CHOOSE t \in roots : \A o \in roots : t <= o
               r2 == CHOOSE t \in roots : \A o \in roots : o <= t
           IN  IF StrictlyInside(ray_t, r1) THEN <<r1>>
               ELSE IF StrictlyInside(ray_t, r2) THEN <<r2>>
               ELSE <<>>

SphereHitAsSelected(c) ==
  LET expected == SelectedRoot(c.args.self, c.args.ray, c.args.ray_t)
  IN  /\ c.result.kind = "returned"
      /\ (c.result.value = <<>>) <=> (expected = <<>>)
      /\ expected # <<>> => c.result.value[1].t = expected[1]

\* C13: Sphere::hit returns no hit when the ray misses the sphere (negative
\* discriminant); otherwise the hit at the smaller root r1 if r1 is strictly
\* inside the query interval, else at r2 if r2 is strictly inside, else no
\* hit.  Violated: on a sphere of radius 0 a selected root makes hit panic.
C13_SphereHitSelectsRoots ==
  (applied # <<>> /\ applied[1].fn = "Sphere::hit") => SphereHitAsSelected(applied[1])

\* the selection rule on the spheres of positive radius
C13_SelectsRootsOfPositiveRadius ==
  (applied # <<>> /\ applied[1].fn = "Sphere::hit" /\ applied[1].args.self.radius > 0)
    => SphereHitAsSelected(applied[1])

\* a hit at the far root: the near root is an endpoint of the query interval
C13_FarRootTaken ==
  /\ applied # <<>>
  /\ applied[1].fn = "Sphere::hit"
  /\ applied[1].args.self.radius > 0
  /\ applied[1].result.kind = "returned"
  /\ applied[1].result.value # <<>>
  /\ applied[1].result.value[1].t = 15
  /\ applied[1].args.ray_t.start = 5

(***************************************************************************)
(* Face normals                                                            *)
(***************************************************************************)
\* the outward normal, in world space, of obj where ray meets it at t: away
\* from the centre of a sphere, the plane normal of a planar primitive,
\* turned back by every RotateY around it
RECURSIVE OutwardNormal(_, _, _)
OutwardNormal(obj, ray, t) ==
  CASE obj.kind = "Sphere" -> VSub(at(ray, t), at(obj.center, ray.time))
    [] obj.kind = "Translate" ->
         OutwardNormal(obj.object, Translate_offset_ray(obj, ray), t)
    [] obj.kind = "RotateY" ->
         LET n == OutwardNormal(obj.object, RotateY_rotated_ray(obj, ray), t)
         IN  <<obj.cos_theta * n[1] + obj.sin_theta * n[3], n[2],
               obj.cos_theta * n[3] - obj.sin_theta * n[1]>>
    [] OTHER -> obj.normal

\* C14: the normal of every hit record of a Sphere, Parallelogram, Triangle
\* or Disc, bare or wrapped in Translate / RotateY, does not point along the
\* incoming ray (dot(ray.direction, normal) <= 0); front_face is true exactly
\* when dot(ray.direction, outward normal) < 0, and the recorded normal is
\* the outward normal on a front-face hit and its negation otherwise (so a
\* tangent ray is a back-face hit).
C14_NormalOpposesRay ==
  (applied # <<>> /\ applied[1].fn = "Hittable::hit" /\ applied[1].result # <<>>) =>
    LET rec == applied[1].result[1]
        ray == applied[1].args.ray
        outward == OutwardNormal(applied[1].args.self, ray, rec.t)
    IN  /\ dot(ray.direction, rec.normal) <= 0
        /\ rec.front_face <=> (dot(ray.direction, outward) < 0)
        /\ rec.normal = IF rec.front_face THEN outward ELSE VNeg(outward)

\* a ray tangent to a rotated, translated sphere: a back-face hit
C14_Witness ==
  /\ applied # <<>>
  /\ applied[1].fn = "Hittable::hit"
  /\ applied[1].args.self.kind = "RotateY"
  /\ applied[1].args.self.object.kind = "Translate"
  /\ applied[1].args.self.object.object.kind = "Sphere"
  /\ applied[1].result # <<>>
  /\ ~applied[1].result[1].front_face
  /\ dot(applied[1].args.ray.direction, applied[1].result[1].normal) = 0

(***************************************************************************)
(* Planar interior tests                                                   *)
(***************************************************************************)
\* the regions, on fractions with a common denominator; an f64 that is not a
\* finite number satisfies none of the inequalities that bound a region
InSquare(a, b) ==
  /\ IsFinite(a.num) /\ IsFinite(b.num)
  /\ 0 <= a.num /\ a.num <= a.den
  /\ 0 <= b.num /\ b.num <= b.den

InTriangle(a, b) ==
  /\ IsFinite(a.num) /\ IsFinite(b.num)
  /\ a.num >= 0 /\ b.num >= 0
  /\ a.num + b.num <= a.den

InDisc(a, b) ==
  /\ IsFinite(a.num) /\ IsFinite(b.num)
  /\ (2 * a.num - a.den) * (2 * a.num - a.den)
       + (2 * b.num - b.den) * (2 * b.num - b.den) <= a.den * a.den

InteriorAsRegions(c) ==
  LET a == c.args.a
      b == c.args.b
      uv == <<<<a, b>>>>
  IN  /\ c.result.Parallelogram = IF InSquare(a, b) THEN uv ELSE <<>>
      /\ c.result.Triangle = IF InTriangle(a, b) THEN uv ELSE <<>>
      /\ c.result.Disc = IF InDisc(a, b) THEN uv ELSE <<>>
      /\ c.result.Triangle # <<>> => c.result.Parallelogram # <<>>
      /\ c.result.Disc # <<>> => c.result.Parallelogram # <<>>

\* C15: is_interior returns (a, b) unchanged exactly on these regions:
\* Parallelogram 0 <= a <= 1 and 0 <= b <= 1; Triangle a >= 0, b >= 0 and
\* a + b <= 1; Disc (a - 0.5)^2 + (b - 0.5)^2 <= 0.25; and whatever Triangle
\* or Disc accepts, Parallelogram accepts.  Violated: Triangle and Disc
\* accept a NaN coordinate, which Parallelogram rejects.
C15_InteriorRegions ==
  (applied # <<>> /\ applied[1].fn = "is_interior") => InteriorAsRegions(applied[1])

\* the regions on coordinates that are numbers
C15_RegionsOfNumbers ==
  (applied # <<>> /\ applied[1].fn = "is_interior"
     /\ applied[1].args.a.num # NaN /\ applied[1].args.b.num # NaN)
    => InteriorAsRegions(applied[1])

\* a point on the rim of the disc and inside the triangle is accepted by all
C15_RimAccepted ==
  /\ applied # <<>>
  /\ applied[1].fn = "is_interior"
  /\ applied[1].args.a.num = 1
  /\ applied[1].args.b.num = 2
  /\ applied[1].result.Disc # <<>>
  /\ applied[1].result.Triangle # <<>>
  /\ applied[1].result.Parallelogram # <<>>

(***************************************************************************)
(* Metal::scatter and Dielectric::scatter                                  *)
(***************************************************************************)
ScatterOf(kind) ==
  /\ applied # <<>>
  /\ applied[1].fn = "Material::scatter"
  /\ applied[1].args.self.kind = kind

\* a scatter result with this attenuation, from the hit point, at the
\* incoming ray's time
ScattersWith(c, attenuation) ==
  /\ c.result.kind = "returned"
  /\ c.result.value # <<>>
  /\ c.result.value[1].attenuation = attenuation
  /\ c.result.value[1].scattered.origin = c.args.record.point
  /\ c.result.value[1].scattered.time = c.args.ray_in.time

\* C16: Metal::scatter returns no scatter exactly when the perturbed
\* reflection is below the surface (dot(perturbed, normal) < 0); otherwise it
\* returns, without aborting, a result with the albedo as attenuation and a
\* ray from the hit point, along the perturbed direction, at the incoming
\* ray's time.  Violated: the result's pdf field is todo!(), which panics.
C16_MetalScatters ==
  ScatterOf("Metal") =>
    IF applied[1].args.self.fuzz > 0 /\ applied[1].args.rnd.below
    THEN applied[1].result = Returned(<<>>)
    ELSE /\ ScattersWith(applied[1], applied[1].args.self.albedo)
         /\ applied[1].result.value[1].scattered.direction = applied[1].args.rnd.direction

\* C17: Dielectric::scatter always returns a scatter result, never None and
\* never an abort, with white attenuation and a reflected or refracted ray
\* from the hit point.  Violated: the result's pdf field is todo!(), which
\* panics on every call.
C17_DielectricScatters ==
  ScatterOf("Dielectric") => ScattersWith(applied[1], Color_white)

(***************************************************************************)
(* Interval::positive, Interval::new, Interval::overlap                    *)
(***************************************************************************)
\* == on f64 and on Interval (derived PartialEq): NaN equals nothing
FEq(a, b) == a # NaN /\ b # NaN /\ a = b
IEq(x, y) == FEq(x.start, y.start) /\ FEq(x.end, y.end)

IntervalCall(fn) == applied # <<>> /\ applied[1].fn = fn

PositiveCanonical(c) ==
  LET a == c.args.a
      b == c.args.b
      lo == IF FLe(a, b) THEN a ELSE b
      hi == IF FLe(a, b) THEN b ELSE a
  IN  /\ IEq(c.result.ab, c.result.ba)
      /\ IEq(c.result.ab, Interval_new(lo, hi))
      /\ FLe(c.result.ab.start, c.result.ab.end)

\* C18: positive(a, b) == positive(b, a) == [min(a, b), max(a, b)] for all a
\* and b, so start <= end in its result; new(a, b) keeps start = a and
\* end = b whatever their order.  Violated: with a NaN argument positive
\* returns the arguments swapped, and the two orders give different results.
C18_PositiveCanonicalizes ==
  /\ IntervalCall("Interval::positive") => PositiveCanonical(applied[1])
  /\ IntervalCall("Interval::new") =>
       /\ applied[1].result.ab.start = applied[1].args.a
       /\ applied[1].result.ab.end = applied[1].args.b

\* the same on arguments that are numbers
C18_CanonicalOnNumbers ==
  /\ (IntervalCall("Interval::positive")
        /\ applied[1].args.a # NaN /\ applied[1].args.b # NaN)
       => PositiveCanonical(applied[1])
  /\ IntervalCall("Interval::new") =>
       /\ applied[1].result.ab.start = applied[1].args.a
       /\ applied[1].result.ab.end = applied[1].args.b

\* positive reorders, new does not
C18_Reordered ==
  \/ /\ IntervalCall("Interval::positive")
     /\ applied[1].args.a = 2 /\ applied[1].args.b = -1
     /\ applied[1].result.ab = Interval_new(-1, 2)
  \/ /\ IntervalCall("Interval::new")
     /\ applied[1].args.a = 2 /\ applied[1].args.b = -1
     /\ applied[1].result.ab = Interval_new(2, -1)

OptIEq(x, y) == IF x = <<>> \/ y = <<>> THEN x = y ELSE IEq(x[1], y[1])

Within(inner, outer) == FLe(outer.start, inner.start) /\ FLe(inner.end, outer.end)

OverlapIsIntersection(c) ==
  LET a == c.args.a
      b == c.args.b
      start == IF FLe(a.start, b.start) THEN b.start ELSE a.start
      end   == IF FLe(a.end, b.end) THEN a.end ELSE b.end
  IN  /\ OptIEq(c.result.ab, IF FLt(start, end) THEN <<Interval_new(start, end)>> ELSE <<>>)
      /\ OptIEq(c.result.ab, c.result.ba)
      /\ c.result.ab # <<>> => Within(c.result.ab[1], a) /\ Within(c.result.ab[1], b)
      /\ (a = Interval_empty \/ b = Interval_empty) => c.result.ab = <<>>

\* C19: overlap(a, b) is Some([max of the starts, min of the ends]) exactly
\* when that intersection has strictly positive length and None otherwise
\* (touching intervals and pairs with the empty interval give None); it is
\* commutative and its result lies within both inputs.  Violated: intervals
\* touching at an infinite endpoint have size inf - inf = NaN, which the test
\* size <= 0.0 does not reject.
C19_OverlapIsIntersection ==
  IntervalCall("Interval::overlap") => OverlapIsIntersection(applied[1])

\* an interval with ends the test can measure: no NaN end, and not a single
\* point at infinity
Measurable(i) ==
  /\ i.start # NaN /\ i.end # NaN
  /\ ~(i.start = PInf /\ i.end = PInf)
  /\ ~(i.start = NInf /\ i.end = NInf)

C19_OverlapOfMeasurable ==
  (IntervalCall("Interval::overlap")
     /\ Measurable(applied[1].args.a) /\ Measurable(applied[1].args.b))
    => OverlapIsIntersection(applied[1])

(***************************************************************************)
(* Color::hex                                                              *)
(***************************************************************************)
\* the channels, out of 255, of a 6-digit value
SixDigitChannels(c) == <<(c \div 65536) % 256, (c \div 256) % 256, c % 256>>

\* the 6-digit value with each hex digit of a 3-digit value doubled
DigitsDoubled(c) ==
  ((c \div 256) % 16) * 17 * 65536 + ((c \div 16) % 16) * 17 * 256 + (c % 16) * 17

HexDecodes(c) ==
  IF c.args.color > HEX3_MAX
  THEN c.result = SixDigitChannels(c.args.color)
  ELSE c.result = SixDigitChannels(DigitsDoubled(c.args.color))

\* C20: for 0xfff < c <= 0xffffff hex(c) has the channels (c >> 16) & 0xff,
\* (c >> 8) & 0xff and c & 0xff, each over 255; for c <= 0xfff it is the
\* colour of the 6-digit value with each digit doubled, so hex(0x0ff) is
\* cyan and hex(0xfff) is white.  Violated: a 3-digit digit d becomes the
\* channel 16 * d, not 17 * d, so hex(0xfff) is (240, 240, 240) / 255.
C20_HexDecodes ==
  (applied # <<>> /\ applied[1].fn = "Color::hex") => HexDecodes(applied[1])

\* the 6-digit values alone
C20_SixDigitDecodes ==
  (applied # <<>> /\ applied[1].fn = "Color::hex" /\ applied[1].args.color > HEX3_MAX)
    => HexDecodes(applied[1])

(***************************************************************************)
(* Claims about Camera::ray_color                                          *)
(***************************************************************************)

Finished == rc_status \in {"returned", "panicked"}

C9_Bounds ==
  /\ rc_queries <= rc_cfg.depth
  /\ rc_calls <= rc_cfg.depth
  /\ rc_queries = Cardinality({i \in 1..Len(rc_log) : rc_log[i].kind # "depth0"})
  /\ rc_stack # <<>> => rc_stack[1].depth = rc_cfg.depth
  /\ \A i \in 2..Len(rc_stack) : rc_stack[i].depth = rc_stack[i - 1].depth - 1
  /\ \A i \in 1..Len(rc_log) : rc_log[i].depth = rc_cfg.depth - (i - 1)
  /\ \A i \in 1..Len(rc_log) : rc_log[i].kind = "depth0" <=> rc_log[i].depth = 0
  /\ rc_status = "returned" /\ rc_cfg.depth = 0 =>
       rc_queries = 0 /\ rc_calls = 0 /\ rc_ret[1].color = Color_black

\* C9: ray_color is depth-bounded.  A call with depth 0 returns black without
\* a query; a call with depth d makes at most d world.hit queries and at most
\* d nested calls, each nested call receives the depth of its caller less
\* one, and every call that is started ends (under SpecRayColorFair).
C9_RayColorDepthBounded ==
  /\ []C9_Bounds
  /\ (rc_status = "running") ~> Finished

\* C9 witness: a call of the largest depth scattered at every level, so it
\* made MaxDepth queries and MaxDepth nested calls, and has returned.
C9_Witness ==
  /\ rc_status = "returned"
  /\ rc_cfg.depth = MaxDepth
  /\ rc_queries = MaxDepth
  /\ rc_calls = MaxDepth

\* the colour a material's scatter result carries
AttenuationOf(mat) ==
  CASE mat.kind \in {"Lambertian", "Isotropic"} -> mat.texture
    [] mat.kind = "Metal" -> mat.albedo
    [] mat.kind = "Dielectric" -> Color_white
    [] OTHER -> Color_black

EmissionOf(mat) == IF mat.kind = "DiffuseLight" THEN mat.texture ELSE Color_black

\* the value the call at a level of the recursion has to return
RECURSIVE Expected(_)
Expected(level) ==
  LET e == rc_log[level]
  IN  CASE e.kind = "depth0" -> Color_black
        [] e.kind = "miss" -> Background_color(rc_cfg.background, e.ray)
        [] e.kind = "noscatter" -> e.emission_color
        [] e.kind = "scatter" ->
             Color_add(e.emission_color, Color_mul(e.attenuation, Expected(level + 1)))
        [] OTHER -> Color_black

\* every query met a surface, and every surface met neither emits nor
\* reflects
BlackClosedScene ==
  \A i \in 1..Len(rc_log) :
    /\ rc_log[i].kind # "miss"
    /\ rc_log[i].hit # <<>> =>
         /\ EmissionOf(rc_log[i].hit[1].material) = Color_black
         /\ AttenuationOf(rc_log[i].hit[1].material) = Color_black

\* C10: for depth >= 1 ray_color returns the background on a miss, the
\* emitted colour on a hit whose material does not scatter, and otherwise
\* emitted + attenuation * ray_color(scattered, depth - 1); so in a closed
\* scene of materials with zero emission and black attenuation every call
\* returns black.
C10_RayColorReturnsByCase ==
  /\ rc_ret # <<>> => rc_ret[1].color = Expected(rc_ret[1].level)
  /\ Finished /\ rc_cfg.depth >= 1 /\ BlackClosedScene =>
       rc_status = "returned" /\ rc_ret[1].color = Color_black

(***************************************************************************)
(* HittableVec::add                                                        *)
(***************************************************************************)
BoxWithin(inner, outer) ==
  \A ax \in {"x", "y", "z"} :
    FLe(outer[ax].start, inner[ax].start) /\ FLe(inner[ax].end, outer[ax].end)

\* the list and its aggregate box agree
C21_Aggregate ==
  /\ (world.bounding_box = <<>>) <=> (Len(world.objects) = 0)
  /\ \A i \in 1..Len(world.objects) :
       /\ bounding_box(world.objects[i]) # <<>>
       /\ BoxWithin(bounding_box(world.objects[i])[1], world.bounding_box[1])

\* one call of add: a successful one appends one primitive after the ones
\* already there, an aborted one changes nothing
C21_AddStep ==
  ((world' # world \/ last' # last) /\ last' # <<>> /\ last'[1].op = "HittableVec::add") =>
    IF last'[1].outcome = "ok"
    THEN /\ Len(world'.objects) = Len(world.objects) + 1
         /\ SubSeq(world'.objects, 1, Len(world.objects)) = world.objects
         /\ bounding_box(world'.objects[Len(world'.objects)]) # <<>>
    ELSE world' = world

\* C21: from new(), every successful add appends its primitive (so len() is
\* the number of successful adds and objects is in insertion order);
\* bounding_box() is None exactly for the empty list and otherwise contains
\* the box of every primitive added; an add that aborts on a primitive
\* without a box leaves the list and the aggregate box as they were.
C21_AddAccumulates == []C21_Aggregate /\ [][C21_AddStep]_vars

\* two primitives at different depths were added, and a third add aborted
C21_Witness ==
  /\ Len(world.objects) = 2
  /\ world.objects[1] # world.objects[2]
  /\ world.bounding_box[1].z.start # bounding_box(world.objects[2])[1].z.start
  /\ last # <<>>
  /\ last[1].op = "HittableVec::add"
  /\ last[1].outcome = "panic"

(***************************************************************************)
(* Sphere::get_uv                                                          *)
(***************************************************************************)
\* the point (x, y, z) with coordinates in {-1, 0, 1}, zeros positive
AxisPoint(x, y, z) == <<Coord(2 * x, FALSE), Coord(2 * y, FALSE), Coord(2 * z, FALSE)>>

\* u = un/4 and v = vn/2
UvIs(r, un, vn) ==
  /\ r.kind = "returned"
  /\ r.value.u.num * 4 = un * r.value.u.den
  /\ r.value.v.num * 2 = vn * r.value.v.den

OnUnitSphere(point) == Coord_sq(point[1]) + Coord_sq(point[2]) + Coord_sq(point[3]) = 2

\* C22: get_uv maps (1,0,0) to (0.5, 0.5), (-1,0,0) to (0, 0.5), (0,1,0) to
\* (0.5, 1), (0,-1,0) to (0.5, 0), (0,0,1) to (0.25, 0.5) and (0,0,-1) to
\* (0.75, 0.5); on every point of the unit sphere it returns u and v in [0, 1].
C22_AxisPointsAndRange ==
  (applied # <<>> /\ applied[1].fn = "Sphere::get_uv") =>
    LET point == applied[1].args.point
        r == applied[1].result
    IN  /\ point = AxisPoint(1, 0, 0) => UvIs(r, 2, 1)
        /\ point = AxisPoint(-1, 0, 0) => UvIs(r, 0, 1)
        /\ point = AxisPoint(0, 1, 0) => UvIs(r, 2, 2)
        /\ point = AxisPoint(0, -1, 0) => UvIs(r, 2, 0)
        /\ point = AxisPoint(0, 0, 1) => UvIs(r, 1, 1)
        /\ point = AxisPoint(0, 0, -1) => UvIs(r, 3, 1)
        /\ OnUnitSphere(point) =>
             /\ r.kind = "returned"
             /\ 0 <= r.value.u.num /\ r.value.u.num <= r.value.u.den
             /\ 0 <= r.value.v.num /\ r.value.v.num <= r.value.v.den

\* (-1, 0, 0), where atan2 sees y = -0.0 and returns -pi
C22_Witness ==
  /\ applied # <<>>
  /\ applied[1].fn = "Sphere::get_uv"
  /\ applied[1].args.point = AxisPoint(-1, 0, 0)
  /\ applied[1].result.kind = "returned"
  /\ applied[1].result.value.u.num = 0

(***************************************************************************)
(* Claims about ConfigModel, checked under SpecConfig                      *)
(***************************************************************************)

\* the primitive as_hittable builds from one accepted object entry
BuiltFrom(model) ==
  CASE model.model = "Sphere" -> "Sphere"
    [] model.model = "Parallelogram" -> "Parallelogram"
    [] model.model = "Disc" -> "Disc"

OnePrimitivePerEntry(c) ==
  /\ c.result # Panic
  /\ Len(c.result.value.objects) = Len(c.args.self.objects)
  /\ \A i \in 1..Len(c.args.self.objects) :
       c.result.value.objects[i].kind = BuiltFrom(c.args.self.objects[i])

\* C23: for every configuration from_table accepts, as_world returns without
\* aborting a HittableVec with exactly one primitive per objects entry, in
\* the same order, for every object type the parser accepts (sphere,
\* parallelogram, disc).  Violated: the Disc arm of as_hittable is todo!(),
\* and a sphere entry with a negative radius fails the assertion of
\* Sphere::new.
C23_AsWorldBuildsEveryEntry ==
  (applied # <<>> /\ applied[1].fn = "ConfigModel::as_world") => OnePrimitivePerEntry(applied[1])

\* configurations of parallelograms and spheres of non-negative radius
C23_QuadsAndSpheresBuilt ==
  (applied # <<>> /\ applied[1].fn = "ConfigModel::as_world"
     /\ \A i \in 1..Len(applied[1].args.self.objects) :
          LET o == applied[1].args.self.objects[i]
          IN  o.model = "Parallelogram" \/ (o.model = "Sphere" /\ o.radius >= 0))
    => OnePrimitivePerEntry(applied[1])

\* a disc entry alone makes as_world abort
C23_DiscAborts ==
  (applied # <<>> /\ applied[1].fn = "ConfigModel::as_world"
     /\ \E i \in 1..Len(applied[1].args.self.objects) :
          applied[1].args.self.objects[i].model = "Disc")
    => applied[1].result = Panic

(***************************************************************************)
(* Claims about BVHNode::new, checked under SpecBvh                        *)
(***************************************************************************)
BvhCalled == applied # <<>> /\ applied[1].fn = "BVHNode::new"

BvhReturned == BvhCalled /\ applied[1].result.kind = "BVHNode"

\* the tree has the shape of a list of n primitives halved down to one or two
RECURSIVE HalvedShape(_, _)
HalvedShape(tree, n) ==
  IF n <= 2 THEN tree.left.kind # "BVHNode" /\ tree.right.kind # "BVHNode"
  ELSE /\ tree.left.kind = "BVHNode" /\ HalvedShape(tree.left, n \div 2)
       /\ tree.right.kind = "BVHNode" /\ HalvedShape(tree.right, n - n \div 2)

\* the primitives below a node built from n list entries, left to right
RECURSIVE LeafSeq(_, _)
LeafSeq(tree, n) ==
  IF n = 1 THEN <<tree.left>>
  ELSE IF n = 2 THEN <<tree.left, tree.right>>
  ELSE LeafSeq(tree.left, n \div 2) \o LeafSeq(tree.right, n - n \div 2)

Occurrences(seq, x) == Cardinality({i \in 1..Len(seq) : seq[i] = x})

SameEntries(a, b) ==
  /\ Len(a) = Len(b)
  /\ \A i \in 1..Len(a) : Occurrences(a, a[i]) = Occurrences(b, a[i])

StartOn(obj, axis) == bounding_box(obj)[1][axis].start

ChildrenByLength(objects, tree) ==
  LET n == Len(objects)
      mid == n \div 2
      axis == longest_axis(tree.bbox)
  IN  CASE n = 1 -> tree.left = objects[1] /\ tree.right = objects[1]
        [] n = 2 -> tree.left = objects[1] /\ tree.right = objects[2]
        [] OTHER ->
             /\ HalvedShape(tree, n)
             /\ Len(LeafSeq(tree.left, mid)) = mid
             /\ SameEntries(LeafSeq(tree.left, mid) \o LeafSeq(tree.right, n - mid), objects)
             /\ \A i \in 1..mid, j \in 1..(n - mid) :
                  FLe(StartOn(LeafSeq(tree.left, mid)[i], axis),
                      StartOn(LeafSeq(tree.right, n - mid)[j], axis))

\* C24: BVHNode::new builds its children by list length: for 1 primitive
\* both children are that primitive; for 2 they are the two primitives in
\* input order; for n >= 3 the list is sorted by the start of each box on the
\* chosen axis and split at floor(n/2), so every primitive of the left
\* subtree starts at or before every primitive of the right subtree, and
\* each list entry is in exactly one of the two subtrees.
C24_ChildrenByLength ==
  BvhReturned => ChildrenByLength(applied[1].args.objects, applied[1].result)

\* C24 witness: a list of MaxLeaves quads given out of order was sorted, so
\* the root holds a subtree of two and one of three, itself split again
C24_Witness ==
  /\ BvhReturned
  /\ Len(applied[1].args.objects) = MaxLeaves
  /\ LeafSeq(applied[1].result, MaxLeaves) # applied[1].args.objects
  /\ \E i \in 1..(MaxLeaves - 1) :
       ~cmp_box_le(applied[1].args.objects[i], applied[1].args.objects[i + 1],
                   longest_axis(applied[1].result.bbox))

(***************************************************************************)
(* Claims about hit queries, checked under SpecProbe                       *)
(***************************************************************************)
NodeProbed == applied # <<>> /\ applied[1].fn = "BVHNode::hit"

\* the left probe and the right probe of the node on its single primitive
LeftProbe(c) == hit_drawing(c.args.self.left, c.args.ray, c.args.ray_t, c.args.draws)

RightProbe(c) ==
  hit_drawing(c.args.self.right, c.args.ray,
              Interval_new(c.args.ray_t.start, LeftProbe(c).hit[1].t), LeftProbe(c).draws)

ProbesAgree(c) ==
  /\ LeftProbe(c).hit # <<>> =>
       RightProbe(c).hit = <<>> \/ RightProbe(c).hit[1].t = LeftProbe(c).hit[1].t
  /\ c.result = hit_drawing(c.args.self.left, c.args.ray, c.args.ray_t, c.args.draws).hit

\* C25: in a BVH node built from a single primitive p the two probes agree
\* for every kind of primitive, a ConstantMedium included: when the left
\* probe hits at t, the right probe on the interval tightened to t returns
\* no hit or a hit at that t, so node.hit returns what one call of p.hit on
\* the original interval returns.  Violated: the right probe of a
\* ConstantMedium draws again and may hit before t, and a ray that touches
\* the box of p in a single point is turned away by the box test of the node.
C25_SingleLeafProbesAgree == NodeProbed => ProbesAgree(applied[1])

\* the probes themselves agree on every primitive that draws nothing
C25_FixedProbesAgree ==
  (NodeProbed /\ applied[1].args.self.left.kind # "ConstantMedium"
     /\ LeftProbe(applied[1]).hit # <<>>)
    => (RightProbe(applied[1]).hit = <<>>
          \/ RightProbe(applied[1]).hit[1].t = LeftProbe(applied[1]).hit[1].t)

\* what the node returns is what p returns whenever the box test lets the
\* ray through and p draws nothing
C25_FixedNodeAsPrimitive ==
  (NodeProbed /\ applied[1].args.self.left.kind # "ConstantMedium"
     /\ BoundingBox3_hit(applied[1].args.self.bbox, applied[1].args.ray, applied[1].args.ray_t))
    => applied[1].result = Hittable_hit(applied[1].args.self.left, applied[1].args.ray,
                                        applied[1].args.ray_t)

HitReturned ==
  /\ applied # <<>>
  /\ applied[1].fn \in {"Hittable::hit", "BVHNode::hit"}
  /\ applied[1].result # <<>>

\* a ConstantMedium of negative density is the primitive or the child
OfNegativeDensity(obj) ==
  \/ obj.kind = "ConstantMedium" /\ FLt(0, obj.inv_density)
  \/ obj.kind = "BVHNode" /\ obj.left.kind = "ConstantMedium" /\ FLt(0, obj.left.inv_density)

\* C28: every hit returned by a Hittable (Sphere, Parallelogram, Triangle,
\* Disc, Translate, RotateY, ConstantMedium, HittableVec, BVHNode) for a
\* query interval [start, end] with start <= end has start <= t <= end; for
\* a ConstantMedium whatever random() returns.  Violated: a ConstantMedium
\* built with a negative density returns t before the entry point, and so
\* before start.
C28_HitWithinInterval ==
  HitReturned => contains(applied[1].args.ray_t, applied[1].result[1].t)

\* every Hittable but a medium of negative density keeps t in the interval
C28_WithinUnlessNegativeDensity ==
  (HitReturned /\ ~OfNegativeDensity(applied[1].args.self))
    => contains(applied[1].args.ray_t, applied[1].result[1].t)

(***************************************************************************)
(* Claims about BoundingBox3::longest_axis, checked under SpecAxis         *)
(***************************************************************************)
AxisCalled == applied # <<>> /\ applied[1].fn = "BoundingBox3::longest_axis"

Extent(box, axis) == size(box[axis])

\* no axis is longer than this one
Maximal(box, axis) == \A other \in {"x", "y", "z"} : FLe(Extent(box, other), Extent(box, axis))

\* C26: longest_axis returns an axis whose extent is maximal among the
\* three; when several axes tie for the maximum it returns X if X is among
\* them, and for the empty box it returns X.
C26_LongestAxis ==
  AxisCalled =>
    /\ Maximal(applied[1].args.self, applied[1].result)
    /\ Maximal(applied[1].args.self, "x") => applied[1].result = "x"
    /\ applied[1].args.self = BoundingBox3_empty => applied[1].result = "x"

\* C26 witness: a box longest on z alone has been measured, and z returned
C26_Witness ==
  /\ AxisCalled
  /\ applied[1].result = "z"
  /\ FLt(Extent(applied[1].args.self, "x"), Extent(applied[1].args.self, "z"))
  /\ FLt(Extent(applied[1].args.self, "y"), Extent(applied[1].args.self, "z"))
  /\ Extent(applied[1].args.self, "z") = MaxExtent

(***************************************************************************)
(* Claims about the boxes of a BVH, checked under SpecBvh                  *)
(***************************************************************************)
AllBoxed(objects) == \A i \in 1..Len(objects) : bounding_box(objects[i]) # <<>>

RECURSIVE NodesOf(_)
NodesOf(tree) ==
  IF tree.kind # "BVHNode" THEN {}
  ELSE {tree} \cup NodesOf(tree.left) \cup NodesOf(tree.right)

RECURSIVE PrimitivesBelow(_)
PrimitivesBelow(tree) ==
  IF tree.kind # "BVHNode" THEN {tree}
  ELSE PrimitivesBelow(tree.left) \cup PrimitivesBelow(tree.right)

BvhRays ==
  {Ray4_new(o, d, 0) :
     o \in {<<1, 1, -25>>, <<0, 1, -25>>, <<-25, 25, 25>>, <<7, 1, 25>>},
     d \in {<<0, 0, 1>>, <<0, 0, -1>>, <<1, -1, -1>>}}

ChildBoxesWithin(node) ==
  /\ BoxWithin(bounding_box(node.left)[1], node.bbox)
  /\ BoxWithin(bounding_box(node.right)[1], node.bbox)
  /\ \A p \in PrimitivesBelow(node) : BoxWithin(bounding_box(p)[1], node.bbox)

MissPrunes(node) ==
  \A ray \in BvhRays, ray_t \in QueryIntervals :
    ~BoundingBox3_hit(node.bbox, ray, ray_t) =>
      \A p \in PrimitivesBelow(node) : ~BoundingBox3_hit(bounding_box(p)[1], ray, ray_t)

\* C27: in every tree built by BVHNode::new from primitives that all report
\* bounding boxes, the box of each node contains, on every axis, the box of
\* each of its two children and so of every primitive in its subtree; hence
\* a ray that misses the box of a node hits no primitive box below it.
C27_NodeBoxesContain ==
  (BvhReturned /\ AllBoxed(applied[1].args.objects)) =>
    \A node \in NodesOf(applied[1].result) : ChildBoxesWithin(node) /\ MissPrunes(node)

\* C27 witness: a tree of MaxLeaves boxed primitives lying apart on x and on
\* z, whose root box is strictly larger than the box of either child
C27_Witness ==
  /\ BvhReturned
  /\ AllBoxed(applied[1].args.objects)
  /\ Len(applied[1].args.objects) = MaxLeaves
  /\ bounding_box(applied[1].result.left)[1] # applied[1].result.bbox
  /\ bounding_box(applied[1].result.right)[1] # applied[1].result.bbox
  /\ \E ray \in BvhRays, ray_t \in QueryIntervals :
       ~BoundingBox3_hit(applied[1].result.bbox, ray, ray_t)

(***************************************************************************)
(* Claims about the termination of BVHNode::new, checked under SpecBvh     *)
(***************************************************************************)
\* levels of BVH nodes from the root down
RECURSIVE Depth(_)
Depth(tree) ==
  IF tree.kind # "BVHNode" THEN 0
  ELSE 1 + (IF Depth(tree.left) > Depth(tree.right) THEN Depth(tree.left)
            ELSE Depth(tree.right))

\* ceil(log2 n) for n >= 1
RECURSIVE CeilLog2(_)
CeilLog2(n) == IF n <= 1 THEN 0 ELSE 1 + CeilLog2((n + 1) \div 2)

\* the lists handed to the recursive calls are of floor(n/2) and
\* n - floor(n/2) primitives, down to lists of one or two
RECURSIVE HalvesAllTheWay(_, _)
HalvesAllTheWay(tree, n) ==
  IF n <= 2 THEN tree.left.kind # "BVHNode" /\ tree.right.kind # "BVHNode"
  ELSE /\ n \div 2 >= 1 /\ n \div 2 < n /\ n - n \div 2 < n
       /\ (n - n \div 2) - n \div 2 \in {0, 1}
       /\ tree.left.kind = "BVHNode" /\ tree.right.kind = "BVHNode"
       /\ Len(LeafSeq(tree.left, n \div 2)) = n \div 2
       /\ Len(LeafSeq(tree.right, n - n \div 2)) = n - n \div 2
       /\ HalvesAllTheWay(tree.left, n \div 2)
       /\ HalvesAllTheWay(tree.right, n - n \div 2)

\* C29: BVHNode::new terminates exactly when its list is not empty: for
\* n >= 1 every recursive call receives a non-empty, strictly shorter list
\* (floor(n/2) and n - floor(n/2) primitives), so construction ends, and a
\* tree that is returned has depth at most ceil(log2 n) + 1; for the empty
\* list the catch-all branch recurses on two empty lists and never returns.
C29_TerminatesIffNonEmpty ==
  BvhCalled =>
    /\ (applied[1].result = Diverges) <=> (Len(applied[1].args.objects) = 0)
    /\ applied[1].result.kind = "BVHNode" =>
         /\ HalvesAllTheWay(applied[1].result, Len(applied[1].args.objects))
         /\ Depth(applied[1].result) <= CeilLog2(Len(applied[1].args.objects)) + 1

\* C29 witness: a list of MaxLeaves primitives gave a tree whose depth is
\* above that of a list of two
C29_Witness ==
  /\ BvhReturned
  /\ Len(applied[1].args.objects) = MaxLeaves
  /\ Depth(applied[1].result) > 2

(***************************************************************************)
(* Claims about PngWriter, checked under SpecPng                           *)
(***************************************************************************)
PngUsed == applied # <<>> /\ applied[1].fn = "PngWriter"

\* write_header succeeds only in Waiting and then leaves Ready; write
\* succeeds only in Ready; write in Waiting and write_header in Ready abort
TwoStates(c) ==
  /\ c.op = "write_header" /\ c.outcome = "ok" =>
       c.before.state = "Waiting" /\ c.after.state = "Ready"
  /\ c.op = "write" /\ c.outcome = "ok" => c.before.state = "Ready"
  /\ c.op = "write" /\ c.before.state = "Waiting" => c.outcome = "panic"
  /\ c.op = "write_header" /\ c.before.state = "Ready" => c.outcome = "panic"
  /\ c.after.state = "Waiting" => c.before.state = "Waiting"

\* a write_header whose encoder failed can be repeated
FailedHeaderKeepsOutput(c) ==
  (c.op = "write_header" /\ c.outcome = "err") =>
    c.after.state = "Waiting" /\ c.after.output # <<>>

NoAbort(log) == \A i \in 1..Len(log) : log[i].outcome # "panic"

\* C30: PngWriter is a two-state machine, Waiting then Ready: write_header
\* succeeds only in Waiting and moves to Ready, write succeeds only in Ready,
\* write in Waiting and a second write_header in Ready abort; the calls of
\* one Camera::render trigger neither abort; and a write_header whose
\* encoder fails leaves the writer in Waiting still holding its output, so
\* that the call can be repeated.  Violated: write_header takes the output
\* out of Waiting before the encoder runs, so a failed call leaves
\* Waiting(None) and the repeated call aborts on unwrap.
C30_PngWriterProtocol ==
  PngUsed =>
    /\ \A i \in 1..Len(applied[1].log) :
         TwoStates(applied[1].log[i]) /\ FailedHeaderKeepsOutput(applied[1].log[i])
    /\ applied[1].by = "render" => NoAbort(applied[1].log)

\* the two states and the calls of render, without the repeated call
C30_TwoStatesAndRender ==
  PngUsed =>
    /\ \A i \in 1..Len(applied[1].log) : TwoStates(applied[1].log[i])
    /\ applied[1].by = "render" => NoAbort(applied[1].log)

\* a write_header repeated after a failed one aborts
C30_RepeatedHeaderAborts ==
  PngUsed =>
    \A i \in 2..Len(applied[1].log) :
      (applied[1].log[i].op = "write_header" /\ applied[1].log[i - 1].op = "write_header"
         /\ applied[1].log[i - 1].outcome = "err")
        => applied[1].log[i].outcome = "panic"

====
